---- MODULE Spec2Model ----
(***************************************************************************)
(* A model of the wasabi kernel core: the 4-level page-table engine, the   *)
(* firmware bridge (memory-map iterator, exit_boot_services), the          *)
(* descriptor tables (GDT, TSS, IDT), interrupt entry and dispatch,        *)
(* drawing, the allocation test, the executor, the test harness and the    *)
(* text sink.                                                              *)
(*                                                                         *)
(* A u64 is a sequence of four 16-bit limbs, least significant first, so   *)
(* that every 64-bit value of the program is represented exactly.          *)
(***************************************************************************)
EXTENDS Integers, Sequences, FiniteSets, TLC

VARIABLES
    \* ---- page-table engine (x86.rs) ----
    mem,            \* table address -> [level, entry]; entry holds the non-zero entries
    freeFrames,     \* the allocator's free 4 KiB frames, in the order it hands them out
    overflowChecks, \* whether the build panics on integer overflow
    ptPc,           \* position of the running create_mapping call
    ptArgs,         \* the arguments of the running call
    addr,           \* local `addr`
    tbl,            \* level -> address of the table the loop of that level works on
    idx,            \* level -> local `index` of the loop of that level
    ptResult,       \* outcome of the last call
    ptCalls,        \* number of calls made
    memAtCall,      \* mem when the running call began
    leafWritten,    \* virtual addresses whose leaf entry the running call wrote
    ptRepeat,       \* the running call repeats the call before it, which returned Ok
    \* ---- firmware bridge (uefi.rs) ----
    fwCount,        \* firmware: number of descriptors of its current memory map
    fwKey,          \* firmware: the key of its current memory map
    fwDescSize,     \* firmware: the size of one descriptor it writes
    fwChanges,      \* firmware: how often its memory map has changed
    bootServices,   \* firmware: "up" until ExitBootServices succeeds, then "exited"
    derivedEqConst, \* whether the build's `==` on EfiStatus is the constant true
    mmSize,         \* MemoryMapHolder.memory_map_size
    mmKey,          \* MemoryMapHolder.map_key
    mmDescSize,     \* MemoryMapHolder.descriptor_size
    mmFilled,       \* whether the holder's fields were written by a successful GetMemoryMap
    ebsPc,          \* position in exit_boot_services
    ebsLog,         \* the firmware calls exit_boot_services has made
    itActive,       \* whether a MemoryMapIterator is live
    itOfs,          \* MemoryMapIterator.ofs
    itYielded,      \* byte offsets of the descriptors the iterator returned
    itNones,        \* number of times the iterator returned None
    \* ---- descriptor tables (x86.rs) ----
    dtPc,           \* the statement of init_exceptions that runs next
    dtSub,          \* the position inside GdtWrapper::default and Idt::new
    dtI,            \* loop counter inside TaskStateSegment64::new and Idt::new
    heapBase,       \* address of the first byte of the heap
    allocPolicy,    \* which fitting block the allocator hands out
    heapLive,       \* the live blocks of the heap, as [off, size]
    stacks,         \* offsets of the blocks alloc_interrupt_stack obtained, in order
    tss,            \* TaskStateSegment64Inner: _rsp and _ist
    tssAddr,        \* TaskStateSegment64::phys_addr
    gdt,            \* the Gdt in memory
    gdtAddr,        \* its address
    cpu,            \* GDTR, IDTR, TR and the segment registers
    cpuLog,         \* the descriptor-table steps performed, in order
    idt,            \* vector -> IdtDescriptor
    idtAddr,        \* address of the pinned IDT
    handlerAddr,    \* handler -> its address (0: int_handler_unimplemented, v: interrupt_entrypoint v)
    \* ---- interrupt entry and dispatch (x86.rs) ----
    ihPc,           \* where control is: the interrupted code, a stub, inthandler_common, ...
    ihVec,          \* the vector being delivered
    regs,           \* the general registers and rsp
    stk,            \* the handler stack: address -> 8-byte word
    ihI,            \* position in the run of pushes or pops
    ihEntry,        \* the registers and the CPU frame values at interrupt entry
    ihTop,          \* rsp before the processor pushed its frame
    ihRspErr,       \* rsp right after the error code was pushed
    ihFrame,        \* what iretq popped
    ihDispatcher,   \* the Rust function control entered
    ihLock,         \* whether the interrupted code holds the lock of GLOBAL_VRAM_WRITER
    \* ---- drawing (main.rs) ----
    gfxBuf,         \* the VramBufferInfo: width, height, pixels_per_line
    vram,           \* byte offset from buf -> the u32 stored there
    gfxBefore,      \* vram before the last drawing call
    gfxLast,        \* the last drawing call: its arguments, its result, the offsets it wrote
    gfxCalls,       \* drawing calls made
    \* ---- allocation test (tests.rs) ----
    alBase,         \* address of the heap
    alPolicy,       \* which fitting block the allocator hands out
    alLive,         \* the live blocks of the heap
    alPtrs,         \* the allocations made, in order: offset in the heap, alignment asked
    alPc,           \* the test: running, or panicked on a failed assert
    \* ---- executor (executor.rs) ----
    exProg,         \* task -> its future: a sequence of prints, yields and sleeps
    exPos,          \* task -> the operation its next poll resumes at
    exSpawned,      \* tasks spawned so far
    exReady,        \* the ready FIFO
    exSleeping,     \* the sleeping set: deadline, task, order of insertion
    exPolled,       \* the tasks being polled
    exDone,         \* the tasks dropped after Ready
    exPc,           \* the run loop: spawning, wake, pick, polling, idle
    exNow,          \* now_ns(), in seconds
    exOut,          \* what the tasks printed, in order
    exSeq,          \* insertions into the sleeping set so far
    \* ---- test harness (test_runner.rs, qemu.rs) ----
    thTests,        \* the slice of tests: for each, whether it returns or panics
    thPc,           \* where the harness is: start, between tests, in a test, in exit_qemu, halted
    thIdx,          \* index of the test running or to run next
    thRan,          \* the tests entered, in order
    thReturned,     \* the tests that returned
    thCode,         \* the QemuExitCode passed to exit_qemu
    thSerial,       \* the lines written to COM1
    thPort,         \* the writes to I/O ports other than COM1: port, value
    thHlts,         \* hlt instructions executed
    \* ---- text sink (print.rs) ----
    prWriter,       \* GLOBAL_VRAM_WRITER: "None", or the framebuffer of the writer
    prLock,         \* who holds the lock of GLOBAL_VRAM_WRITER: free, kernel, dispatcher
    prPc,           \* the kernel's global_print: idle, serial, lock, vram, unlock
    prI,            \* characters of its message written to the sink at hand
    prCalls,        \* calls of global_print the kernel made
    prHPc,          \* the dispatcher's global_print: none, serial, lock, spinning, vram, unlock, returned
    prHI,           \* characters of its message written to the sink at hand
    prSerial,       \* the characters sent to COM1: who sent it, the character, the lock at that time
    prVram,         \* the glyphs drawn: who drew it, the character, the lock at that time
    prSets,         \* the calls of set_global_vram: the argument, the outcome
    \* ---- diagnostic of inthandler (x86.rs) ----
    pfIndex,        \* the vector inthandler is called with
    pfCode,         \* info.error_code
    pfDiag,         \* what inthandler printed before its panic: the lines, the decoded cause
    \* ---- rectangle fill (main.rs) ----
    frBuf,          \* the VramBufferInfo filled: width, height, pixels_per_line
    frChecks,       \* the build panics on an arithmetic overflow
    frBefore,       \* the framebuffer before the fill_rect call
    frVram,         \* the framebuffer: byte offset -> the pixel stored there
    frLast          \* the fill_rect call: its arguments, its result, the offsets it wrote

ptVars == <<mem, freeFrames, overflowChecks, ptPc, ptArgs, addr, tbl, idx,
            ptResult, ptCalls, memAtCall, leafWritten, ptRepeat>>

fwVars == <<fwCount, fwKey, fwDescSize, fwChanges, bootServices, derivedEqConst,
            mmSize, mmKey, mmDescSize, mmFilled, ebsPc, ebsLog,
            itActive, itOfs, itYielded, itNones>>

dtVars == <<dtPc, dtSub, dtI, heapBase, allocPolicy, heapLive, stacks, tss, tssAddr,
            gdt, gdtAddr, cpu, cpuLog, idt, idtAddr, handlerAddr>>

ihVars == <<ihPc, ihVec, regs, stk, ihI, ihEntry, ihTop, ihRspErr, ihFrame, ihDispatcher,
            ihLock>>

gfxVars == <<gfxBuf, vram, gfxBefore, gfxLast, gfxCalls>>

alVars == <<alBase, alPolicy, alLive, alPtrs, alPc>>

exVars == <<exProg, exPos, exSpawned, exReady, exSleeping, exPolled, exDone, exPc, exNow, exOut, exSeq>>

thVars == <<thTests, thPc, thIdx, thRan, thReturned, thCode, thSerial, thPort, thHlts>>

prVars == <<prWriter, prLock, prPc, prI, prCalls, prHPc, prHI, prSerial, prVram, prSets>>

pfVars == <<pfIndex, pfCode, pfDiag>>

frVars == <<frBuf, frChecks, frBefore, frVram, frLast>>

vars == <<ptVars, fwVars, dtVars, ihVars, gfxVars, alVars, exVars, thVars, prVars, pfVars, frVars>>

notPt == <<fwVars, dtVars, ihVars, gfxVars, alVars, exVars, thVars, prVars, pfVars, frVars>>

notFw == <<ptVars, dtVars, ihVars, gfxVars, alVars, exVars, thVars, prVars, pfVars, frVars>>

notDt == <<ptVars, fwVars, ihVars, gfxVars, alVars, exVars, thVars, prVars, pfVars, frVars>>

notIh == <<ptVars, fwVars, dtVars, gfxVars, alVars, exVars, thVars, prVars, pfVars, frVars>>

notGfx == <<ptVars, fwVars, dtVars, ihVars, alVars, exVars, thVars, prVars, pfVars, frVars>>

notAl == <<ptVars, fwVars, dtVars, ihVars, gfxVars, exVars, thVars, prVars, pfVars, frVars>>

notEx == <<ptVars, fwVars, dtVars, ihVars, gfxVars, alVars, thVars, prVars, pfVars, frVars>>

notTh == <<ptVars, fwVars, dtVars, ihVars, gfxVars, alVars, exVars, prVars, pfVars, frVars>>

notPr == <<ptVars, fwVars, dtVars, ihVars, gfxVars, alVars, exVars, thVars, pfVars, frVars>>

notPf == <<ptVars, fwVars, dtVars, ihVars, gfxVars, alVars, exVars, thVars, prVars, frVars>>

notFr == <<ptVars, fwVars, dtVars, ihVars, gfxVars, alVars, exVars, thVars, prVars, pfVars>>

-----------------------------------------------------------------------------
(* 64-bit words *)

Limb == 256 * 256

U64(l3, l2, l1, l0) == <<l0, l1, l2, l3>>

Zero64 == U64(0, 0, 0, 0)

RECURSIVE BitAnd(_, _)
BitAnd(a, b) ==
    IF a = 0 \/ b = 0 THEN 0
    ELSE (a % 2) * (b % 2) + 2 * BitAnd(a \div 2, b \div 2)

RECURSIVE BitOr(_, _)
BitOr(a, b) ==
    IF a = 0 THEN b
    ELSE IF b = 0 THEN a
    ELSE (IF a % 2 = 1 \/ b % 2 = 1 THEN 1 ELSE 0) + 2 * BitOr(a \div 2, b \div 2)

RECURSIVE Pow2(_)
Pow2(n) == IF n = 0 THEN 1 ELSE 2 * Pow2(n - 1)

And64(x, y) == [i \in 1..4 |-> BitAnd(x[i], y[i])]

Or64(x, y) == [i \in 1..4 |-> BitOr(x[i], y[i])]

Not64(x) == [i \in 1..4 |-> (Limb - 1) - x[i]]

RECURSIVE Carry(_, _, _)
Carry(x, y, i) == IF i = 0 THEN 0 ELSE (x[i] + y[i] + Carry(x, y, i - 1)) \div Limb

\* wrapping addition and its carry out of bit 63
Add64(x, y) == [i \in 1..4 |-> (x[i] + y[i] + Carry(x, y, i - 1)) % Limb]

AddOverflows(x, y) == Carry(x, y, 4) = 1

RECURSIVE LtFrom(_, _, _)
LtFrom(x, y, i) ==
    IF i = 0 THEN FALSE
    ELSE IF x[i] # y[i] THEN x[i] < y[i]
    ELSE LtFrom(x, y, i - 1)

Lt64(x, y) == LtFrom(x, y, 4)

Ge64(x, y) == ~Lt64(x, y)

\* wrapping subtraction
Sub64(x, y) == Add64(Add64(x, Not64(y)), U64(0, 0, 0, 1))

LimbAt(x, j) == IF j >= 1 /\ j <= 4 THEN x[j] ELSE 0

Shr64(x, n) ==
    LET q == n \div 16
        r == n % 16
    IN [i \in 1..4 |->
          (LimbAt(x, i + q) \div Pow2(r))
          + (LimbAt(x, i + q + 1) % Pow2(r)) * Pow2(16 - r)]

Shl64(x, n) ==
    LET q == n \div 16
        r == n % 16
    IN [i \in 1..4 |->
          ((LimbAt(x, i - q) * Pow2(r)) % Limb)
          + (LimbAt(x, i - q - 1) \div Pow2(16 - r))]

\* a small natural number as a u64
Nat64(n) == U64(0, 0, n \div Limb, n % Limb)

\* the low bits of a u64 as a natural number (for values below 2^31)
Low31(x) == x[1] + Limb * (x[2] % 32768)

-----------------------------------------------------------------------------
(* Page-table engine: x86.rs *)

PAGE_SIZE == 4096
ATTR_MASK == 4095
ATTR_PRESENT == 1
ATTR_WRITABLE == 2
ATTR_WRITE_THROUGH == 8
ATTR_CACHE_DISABLE == 16

\* enum PageAttr
NotPresent == 0
ReadWriteKernel == ATTR_PRESENT + ATTR_WRITABLE
ReadWriteIo == ATTR_PRESENT + ATTR_WRITABLE + ATTR_WRITE_THROUGH + ATTR_CACHE_DISABLE
PageAttr == {NotPresent, ReadWriteKernel, ReadWriteIo}

EntriesPerTable == 512

\* Entry::is_present
is_present(value) == BitAnd(value[1], 1) # 0

\* Table::index_shift
index_shift(level) == (level - 1) * 9 + 12

\* Table::calc_index
calc_index(level, a) == Low31(And64(Shr64(a, index_shift(level)), Nat64(511)))

\* the address Entry::table_mut dereferences
table_mut(value) == And64(value, Not64(Nat64(ATTR_MASK)))

\* table.entry[index], of a table no entry of which was written being all zero
ReadEntry(m, t, i) == IF i \in DOMAIN m[t].entry THEN m[t].entry[i] ELSE Zero64

\* table.entry[index].value = v
WriteEntry(m, t, i, v) ==
    LET old == m[t].entry
        new == IF v = Zero64
               THEN [j \in (DOMAIN old) \ {i} |-> old[j]]
               ELSE [j \in (DOMAIN old) \cup {i} |-> IF j = i THEN v ELSE old[j]]
    IN [m EXCEPT ![t].entry = new]

\* Box::new(zeroed table): a fresh all-zero table of the level at address f
NewTable(m, f, level) ==
    [a \in (DOMAIN m) \cup {f} |->
        IF a = f THEN [level |-> level, entry |-> <<>>] ELSE m[a]]

\* Entry::ensure_populated that does not test is_present: a fresh table
\* replaces the one the entry points to
ensure_populated_always(m, free, t, i) ==
    IF free = <<>>
    THEN [ok |-> FALSE, mem |-> m, free |-> free, next |-> Zero64]
    ELSE [ok |-> TRUE,
          mem |-> WriteEntry(NewTable(m, Head(free), m[t].level - 1), t, i,
                             Or64(Head(free), Nat64(ReadWriteKernel))),
          free |-> Tail(free),
          next |-> table_mut(Or64(Head(free), Nat64(ReadWriteKernel)))]

\* the outcome of Entry::ensure_populated followed by table_mut on entry i of
\* table t: the memory, the allocator and the child table, or an allocation
\* failure (Box::new does not return)
ensure_populated(m, free, t, i) ==
    LET e == ReadEntry(m, t, i)
    IN IF is_present(e)
       THEN [ok |-> TRUE, mem |-> m, free |-> free, next |-> table_mut(e)]
       ELSE IF free = <<>>
       THEN [ok |-> FALSE, mem |-> m, free |-> free, next |-> Zero64]
       ELSE LET f == Head(free)
                v == Or64(f, Nat64(ReadWriteKernel))
            IN [ok |-> TRUE,
                mem |-> WriteEntry(NewTable(m, f, m[t].level - 1), t, i, v),
                free |-> Tail(free),
                next |-> table_mut(v)]

\* Entry::set_page that stores the address without the attribute bits
set_page_no_attr(phys, attr) ==
    IF And64(phys, Nat64(ATTR_MASK)) # Zero64
    THEN [ok |-> FALSE, value |-> Zero64]
    ELSE [ok |-> TRUE, value |-> phys]

\* Entry::set_page: the new entry value, or the error
set_page(phys, attr) ==
    IF And64(phys, Nat64(ATTR_MASK)) # Zero64
    THEN [ok |-> FALSE, value |-> Zero64]
    ELSE [ok |-> TRUE, value |-> Or64(phys, Nat64(attr))]

\* u64::wrapping_add that leaves the address where it is
wrapping_add_none(a, n) == a

\* u64::wrapping_add
wrapping_add(a, n) == Add64(a, Nat64(n))

\* `index + 1 >= (1 << 9) || addr >= virt_end` of the loop of a level
BreakCond(index, a, virt_end) == index + 1 >= EntriesPerTable \/ Ge64(a, virt_end)

\* where control goes after the innermost loop body: the loops whose break
\* condition holds are left one after the other
AfterLeaf(ix, a, virt_end) ==
    IF ~BreakCond(ix[1], a, virt_end) THEN "loop1"
    ELSE IF ~BreakCond(ix[2], a, virt_end) THEN "loop2"
    ELSE IF ~BreakCond(ix[3], a, virt_end) THEN "loop3"
    ELSE IF ~BreakCond(ix[4], a, virt_end) THEN "loop4"
    ELSE "return"

\* `phys + addr - virt_start`: the value, or the overflow panic of a build
\* with overflow checks
phys_addr(phys, a, virt_start, checks) ==
    LET sum == Add64(phys, a)
    IN IF checks /\ (AddOverflows(phys, a) \/ Lt64(sum, virt_start))
       THEN [ok |-> FALSE, value |-> Zero64]
       ELSE [ok |-> TRUE, value |-> Sub64(sum, virt_start)]

RootAddr == U64(0, 0, 16, 0)

\* the k-th frame of the heap
Frame(k) == Add64(RootAddr, Nat64(k * PAGE_SIZE))

HeapFrames == 6

MaxCalls == 2

MaxPages == 2

VirtStarts ==
    { U64(0, 0, 0, 4096),              \* 0x1000
      U64(0, 0, 31, 61440),            \* 0x1F_F000: last entry of an L1 table
      U64(0, 127, 65535, 61440),       \* 0x7F_FFFF_F000: last entry of an L2 and an L3 table
      U64(0, 65535, 65535, 61440),     \* 0xFFFF_FFFF_F000: last entry of the L4 table
      U64(65535, 65535, 65535, 61440)  \* 0xFFFF_FFFF_FFFF_F000: last page
    }

VirtEnds(vs) == {Add64(vs, Nat64(k * PAGE_SIZE)) : k \in 0..MaxPages}

PhysStarts ==
    { U64(0, 0, 43690, 0),             \* 0xAAAA_0000
      U64(0, 0, 43690, 2048)           \* 0xAAAA_0800, not aligned
    }

NoArgs == [virt_start |-> Zero64, virt_end |-> Zero64, phys |-> Zero64, attr |-> 0]

NoTables == [l \in 1..4 |-> Zero64]

NoIndex == [l \in 1..4 |-> 0]

\* PML4::new and the heap the tables come from
PtInit ==
    /\ mem = (RootAddr :> [level |-> 4, entry |-> <<>>])
    /\ freeFrames = [k \in 1..HeapFrames |-> Frame(k)]
    /\ overflowChecks \in BOOLEAN
    /\ ptPc = "idle"
    /\ ptArgs = NoArgs
    /\ addr = Zero64
    /\ tbl = NoTables
    /\ idx = NoIndex
    /\ ptResult = "none"
    /\ ptCalls = 0
    /\ memAtCall = mem
    /\ leafWritten = {}
    /\ ptRepeat = FALSE

\* PML4::create_mapping is entered: `let table = self; let mut addr = virt_start;`
CallCreateMapping ==
    /\ ptPc = "idle"
    /\ ptCalls < MaxCalls
    /\ \E vs \in VirtStarts, ph \in PhysStarts, at \in PageAttr :
         \E ve \in VirtEnds(vs) :
            ptArgs' = [virt_start |-> vs, virt_end |-> ve, phys |-> ph, attr |-> at]
    /\ ptRepeat' = (ptResult = "Ok" /\ ptArgs' = ptArgs)
    /\ addr' = ptArgs'.virt_start
    /\ tbl' = [NoTables EXCEPT ![4] = RootAddr]
    /\ idx' = NoIndex
    /\ ptPc' = "loop4"
    /\ ptResult' = "none"
    /\ ptCalls' = ptCalls + 1
    /\ memAtCall' = mem
    /\ leafWritten' = {}
    /\ UNCHANGED <<mem, freeFrames, overflowChecks, notPt>>

\* the head of the loop of level l (4, 3, 2): the index, ensure_populated, table_mut
Descend(l) ==
    /\ ptPc = (CASE l = 4 -> "loop4" [] l = 3 -> "loop3" [] l = 2 -> "loop2")
    /\ \E i \in {calc_index(l, addr)} :
         \E r \in {ensure_populated(mem, freeFrames, tbl[l], i)} :
            /\ idx' = [idx EXCEPT ![l] = i]
            /\ mem' = r.mem
            /\ freeFrames' = r.free
            /\ tbl' = [tbl EXCEPT ![l - 1] = r.next]
            /\ ptPc' = IF ~r.ok THEN "halted"
                       ELSE (CASE l = 4 -> "loop3" [] l = 3 -> "loop2" [] l = 2 -> "loop1")
            /\ ptResult' = IF r.ok THEN ptResult ELSE "AllocError"
    /\ UNCHANGED <<overflowChecks, ptArgs, addr, ptCalls, memAtCall, leafWritten, ptRepeat,
                   notPt>>

\* the body of the innermost loop, and the break tests that follow it
LeafStep ==
    /\ ptPc = "loop1"
    /\ \E i \in {calc_index(1, addr)} :
       \E pa \in {phys_addr(ptArgs.phys, addr, ptArgs.virt_start, overflowChecks)} :
       \E sp \in {set_page(pa.value, ptArgs.attr)} :
       \E next \in {wrapping_add(addr, PAGE_SIZE)} :
       \E to \in {AfterLeaf([idx EXCEPT ![1] = i], next, ptArgs.virt_end)} :
          /\ idx' = [idx EXCEPT ![1] = i]
          /\ IF ~pa.ok
             THEN /\ ptPc' = "halted"
                  /\ ptResult' = "Panic"
                  /\ UNCHANGED <<mem, addr, leafWritten>>
             ELSE IF ~sp.ok
             THEN /\ ptPc' = "idle"
                  /\ ptResult' = "ErrNotAligned"
                  /\ UNCHANGED <<mem, addr, leafWritten>>
             ELSE /\ mem' = WriteEntry(mem, tbl[1], i, sp.value)
                  /\ leafWritten' = leafWritten \cup {addr}
                  /\ addr' = next
                  /\ ptPc' = IF to = "return" THEN "idle" ELSE to
                  /\ ptResult' = IF to = "return" THEN "Ok" ELSE ptResult
    /\ UNCHANGED <<freeFrames, overflowChecks, ptArgs, tbl, ptCalls, memAtCall, ptRepeat, notPt>>

\* the page-table engine not in use
PtParked ==
    /\ mem = (RootAddr :> [level |-> 4, entry |-> <<>>])
    /\ freeFrames = <<>>
    /\ overflowChecks = FALSE
    /\ ptPc = "parked"
    /\ ptArgs = NoArgs
    /\ addr = Zero64
    /\ tbl = NoTables
    /\ idx = NoIndex
    /\ ptResult = "none"
    /\ ptCalls = 0
    /\ memAtCall = mem
    /\ leafWritten = {}
    /\ ptRepeat = FALSE

PtNext ==
    \/ CallCreateMapping
    \/ Descend(4)
    \/ Descend(3)
    \/ Descend(2)
    \/ LeafStep

-----------------------------------------------------------------------------
(* Firmware bridge: uefi.rs *)

MEMORY_MAP_BUFFER_SIZE == 32768

\* size_of::<EfiMemoryDescriptor>()
DESCRIPTOR_BYTES == 40

\* the descriptor sizes a firmware uses: the structure's size, or more
DescriptorSizes == {DESCRIPTOR_BYTES, DESCRIPTOR_BYTES + 8}

MaxDescriptors == 3

MaxMapChanges == 2

MaxNextCalls == 5

\* `status == EfiStatus::Success`: EfiStatus has the single variant Success,
\* so any other status word is not a value of the type, and a build either
\* compares the words or takes the two sides as equal
EfiStatusEq(status, eqConst) == eqConst \/ status = "Success"

\* the firmware's GetMemoryMap on a buffer of bufSize bytes: the status and
\* what it writes through the three out-pointers
FwGetMemoryMap(bufSize, count, desc, key, oldKey, oldDesc) ==
    IF bufSize < count * desc
    THEN {[status |-> "BufferTooSmall", size |-> count * desc, key |-> k, desc |-> d] :
             k \in {oldKey, key}, d \in {oldDesc, desc}}
    ELSE {[status |-> "Success", size |-> count * desc, key |-> key, desc |-> desc]}

\* the firmware's ExitBootServices: it succeeds on the key of the current map
FwExitBootServices(key, current) == IF key = current THEN "Success" ELSE "InvalidParameter"

\* MemoryMapHolder::new, and the firmware before the kernel has called it
FwInit ==
    /\ fwCount \in 1..MaxDescriptors
    /\ fwKey = 1
    /\ fwDescSize \in DescriptorSizes
    /\ fwChanges = 0
    /\ bootServices = "up"
    /\ derivedEqConst \in BOOLEAN
    /\ mmSize = MEMORY_MAP_BUFFER_SIZE
    /\ mmKey = 0
    /\ mmDescSize = 0
    /\ mmFilled = FALSE
    /\ ebsPc = "idle"
    /\ ebsLog = <<>>
    /\ itActive = FALSE
    /\ itOfs = 0
    /\ itYielded = <<>>
    /\ itNones = 0

\* the firmware bridge not in use
FwParked ==
    /\ fwCount = 0
    /\ fwKey = 0
    /\ fwDescSize = 0
    /\ fwChanges = 0
    /\ bootServices = "parked"
    /\ derivedEqConst = FALSE
    /\ mmSize = MEMORY_MAP_BUFFER_SIZE
    /\ mmKey = 0
    /\ mmDescSize = 0
    /\ mmFilled = FALSE
    /\ ebsPc = "parked"
    /\ ebsLog = <<>>
    /\ itActive = FALSE
    /\ itOfs = 0
    /\ itYielded = <<>>
    /\ itNones = 0

\* the firmware services an event and its memory map changes
FwMapChange ==
    /\ bootServices = "up"
    /\ fwChanges < MaxMapChanges
    /\ fwChanges' = fwChanges + 1
    /\ fwKey' = fwKey + 1
    /\ fwCount' \in 1..MaxDescriptors
    /\ UNCHANGED <<fwDescSize, bootServices, derivedEqConst, mmSize, mmKey, mmDescSize,
                   mmFilled, ebsPc, ebsLog, itActive, itOfs, itYielded, itNones, notFw>>

\* EfiBootServicesTable::get_memory_map called on a new holder, outside
\* exit_boot_services
MainGetMemoryMap ==
    /\ ebsPc = "idle"
    /\ bootServices = "up"
    /\ ~itActive
    /\ ~mmFilled
    /\ \E r \in FwGetMemoryMap(mmSize, fwCount, fwDescSize, fwKey, mmKey, mmDescSize) :
          /\ mmSize' = r.size
          /\ mmKey' = r.key
          /\ mmDescSize' = r.desc
          /\ mmFilled' = (r.status = "Success")
    /\ UNCHANGED <<fwCount, fwKey, fwDescSize, fwChanges, bootServices, derivedEqConst,
                   ebsPc, ebsLog, itActive, itOfs, itYielded, itNones, notFw>>

\* MemoryMapHolder::iter
IterNew ==
    /\ ebsPc \in {"idle", "returned"}
    /\ ~itActive
    /\ itActive' = TRUE
    /\ itOfs' = 0
    /\ itYielded' = <<>>
    /\ itNones' = 0
    /\ UNCHANGED <<fwCount, fwKey, fwDescSize, fwChanges, bootServices, derivedEqConst,
                   mmSize, mmKey, mmDescSize, mmFilled, ebsPc, ebsLog, notFw>>

\* MemoryMapIterator::next with a `>` in place of the `>=`
next_inclusive(ofs, size, desc) ==
    IF ofs > size
    THEN [some |-> FALSE, at |-> ofs, ofs |-> ofs]
    ELSE [some |-> TRUE, at |-> ofs, ofs |-> ofs + desc]

\* MemoryMapIterator::next: None once ofs has reached memory_map_size, else
\* the descriptor at ofs, and ofs advances by descriptor_size
next(ofs, size, desc) ==
    IF ofs >= size
    THEN [some |-> FALSE, at |-> ofs, ofs |-> ofs]
    ELSE [some |-> TRUE, at |-> ofs, ofs |-> ofs + desc]

\* a call of MemoryMapIterator::next
IterNext ==
    /\ itActive
    /\ Len(itYielded) + itNones < MaxNextCalls
    /\ \E r \in {next(itOfs, mmSize, mmDescSize)} :
          /\ itOfs' = r.ofs
          /\ itYielded' = IF r.some THEN Append(itYielded, r.at) ELSE itYielded
          /\ itNones' = IF r.some THEN itNones ELSE itNones + 1
    /\ UNCHANGED <<fwCount, fwKey, fwDescSize, fwChanges, bootServices, derivedEqConst,
                   mmSize, mmKey, mmDescSize, mmFilled, ebsPc, ebsLog, itActive, notFw>>

\* exit_boot_services is entered
EbsCall ==
    /\ ebsPc = "idle"
    /\ bootServices = "up"
    /\ ~itActive
    /\ ebsPc' = "get"
    /\ ebsLog' = <<>>
    /\ UNCHANGED <<fwCount, fwKey, fwDescSize, fwChanges, bootServices, derivedEqConst,
                   mmSize, mmKey, mmDescSize, mmFilled, itActive, itOfs, itYielded, itNones, notFw>>

\* `let status = ...get_memory_map(memory_map); assert_eq!(status, EfiStatus::Success);`
EbsGet ==
    /\ ebsPc = "get"
    /\ \E r \in FwGetMemoryMap(mmSize, fwCount, fwDescSize, fwKey, mmKey, mmDescSize) :
          /\ mmSize' = r.size
          /\ mmKey' = r.key
          /\ mmDescSize' = r.desc
          /\ mmFilled' = (r.status = "Success")
          /\ ebsLog' = Append(ebsLog, [fn |-> "get_memory_map", status |-> r.status,
                                        key |-> r.key, buf |-> mmSize])
          /\ ebsPc' = IF EfiStatusEq(r.status, derivedEqConst) THEN "exit" ELSE "panicked"
    /\ UNCHANGED <<fwCount, fwKey, fwDescSize, fwChanges, bootServices, derivedEqConst,
                   itActive, itOfs, itYielded, itNones, notFw>>

\* `let status = (...exit_boot_services)(image_handle, memory_map.map_key);
\*  if status == EfiStatus::Success { break; }`
EbsExit ==
    /\ ebsPc = "exit"
    /\ \E st \in {FwExitBootServices(mmKey, fwKey)} :
          /\ bootServices' = IF st = "Success" THEN "exited" ELSE bootServices
          /\ ebsLog' = Append(ebsLog, [fn |-> "exit_boot_services", status |-> st,
                                        key |-> mmKey, buf |-> 0])
          /\ ebsPc' = IF EfiStatusEq(st, derivedEqConst) THEN "returned" ELSE "get"
    /\ UNCHANGED <<fwCount, fwKey, fwDescSize, fwChanges, derivedEqConst,
                   mmSize, mmKey, mmDescSize, mmFilled, itActive, itOfs, itYielded, itNones, notFw>>

FwNext ==
    \/ FwMapChange
    \/ MainGetMemoryMap
    \/ IterNew
    \/ IterNext
    \/ EbsCall
    \/ EbsGet
    \/ EbsExit

-----------------------------------------------------------------------------
(* Descriptor tables: x86.rs *)

HANDLER_STACK_SIZE == 64 * 1024

TSS_SIZE == 104

GDT_SIZE == 40

IDT_ENTRIES == 256

IDT_DESCRIPTOR_SIZE == 16

KERNEL_CS == 1 * Pow2(3)

KERNEL_DS == 2 * Pow2(3)

TSS64_SEL == 3 * Pow2(3)

BIT_FLAGS_INTGATE == 14

BIT_FLAGS_PRESENT == 128

BIT_FLAGS_DPL0 == 0 * Pow2(5)

BIT_FLAGS_DPL3 == 3 * Pow2(5)

IntGateDPL0 == BitOr(BitOr(BIT_FLAGS_INTGATE, BIT_FLAGS_PRESENT), BIT_FLAGS_DPL0)

IntGateDPL3 == BitOr(BitOr(BIT_FLAGS_INTGATE, BIT_FLAGS_PRESENT), BIT_FLAGS_DPL3)

\* attr of the TSS descriptor, 0b1000_0000_1000_1001
TSS_ATTR == 32905

\* the vectors Idt::new gives a stub of their own, in the order it sets them
Handled == <<3, 6, 8, 13, 14, 32>>

HandledSet == {Handled[k] : k \in 1..Len(Handled)}

\* the handler Idt::new binds vector v to
HandlerOf(v) == IF v \in HandledSet THEN v ELSE 0

\* `x as u32`, kept as a u64 whose upper half is zero
AsU32(x) == U64(0, 0, x[2], x[1])

\* `x as u16`
AsU16(x) == x[1]

\* `x as u8`
AsU8(x) == x[1] % 256

HeapStacks == 9

\* bytes of heap
HeapSize == HeapStacks * HANDLER_STACK_SIZE + 2 * PAGE_SIZE

HeapBases == {U64(0, 0, 16, 0), U64(0, 1, 8997, 24576), U64(65535, 32768, 43981, 0)}

\* what is live on the heap when init_exceptions is called
PreLive == {{}, {[off |-> 0, size |-> 4660]},
            {[off |-> HANDLER_STACK_SIZE, size |-> 2 * HANDLER_STACK_SIZE + 100]}}

\* where the image's text may lie
TextBases == {U64(0, 0, 18, 1024), U64(0, 1, 4660, 43981), U64(65535, 65535, 32768, 4096)}

HandlerIds == {0} \cup HandledSet

\* the handlers are distinct functions of the image, 144 bytes apart
HandlerLayouts == {[h \in HandlerIds |-> Add64(b, Nat64(h * 144))] : b \in TextBases}

\* rounding up that leaves the address as it is
AlignUp_none(n, a) == n

AlignUp(n, a) == ((n + a - 1) \div a) * a

AlignDown(n, a) == (n \div a) * a

Overlaps(o, size, b) == o < b.off + b.size /\ b.off < o + size

Fits(live, o, size) ==
    o >= 0 /\ o + size <= HeapSize /\ \A b \in live : ~Overlaps(o, size, b)

Candidates(live, size, align, policy) ==
    IF policy = "first"
    THEN {0} \cup {AlignUp(b.off + b.size, align) : b \in live}
    ELSE {AlignDown(HeapSize - size, align)} \cup {AlignDown(b.off - size, align) : b \in live}

\* the allocator: a block of the heap, aligned, disjoint from every live block
alloc(live, size, align, policy) ==
    LET fit == {o \in Candidates(live, size, align, policy) : Fits(live, o, size)}
    IN IF fit = {}
       THEN [ok |-> FALSE, off |-> 0, live |-> live]
       ELSE LET o == IF policy = "first"
                     THEN CHOOSE x \in fit : \A y \in fit : x <= y
                     ELSE CHOOSE x \in fit : \A y \in fit : x >= y
            IN [ok |-> TRUE, off |-> o, live |-> live \cup {[off |-> o, size |-> size]}]

\* the allocator takes a block back
dealloc(live, off, size) == live \ {[off |-> off, size |-> size]}

\* alloc_interrupt_stack when the box is dropped at the end of the function
alloc_interrupt_stack_dropped(live, policy, base) ==
    LET r == alloc(live, HANDLER_STACK_SIZE, 1, policy)
    IN [ok |-> r.ok, off |-> r.off,
        rsp |-> Add64(Add64(base, Nat64(r.off)), Nat64(HANDLER_STACK_SIZE)),
        live |-> dealloc(r.live, r.off, HANDLER_STACK_SIZE)]

\* TaskStateSegment64::alloc_interrupt_stack: Box::new of 64 KiB, the
\* address one past its end, and mem::forget keeps the block live
alloc_interrupt_stack(live, policy, base) ==
    LET r == alloc(live, HANDLER_STACK_SIZE, 1, policy)
    IN [ok |-> r.ok, off |-> r.off,
        rsp |-> Add64(Add64(base, Nat64(r.off)), Nat64(HANDLER_STACK_SIZE)),
        live |-> r.live]

\* IdtDescriptor::new that leaves offset_mid zero
IdtDescriptor_new_low_high(segment_selector, ist_index, attr, handler_addr) ==
    [offset_low |-> AsU16(handler_addr),
     offset_mid |-> 0,
     offset_high |-> AsU32(Shr64(handler_addr, 32)),
     segment_selector |-> segment_selector,
     ist_index |-> ist_index,
     attr |-> attr,
     reserved |-> 0]

\* IdtDescriptor::new
IdtDescriptor_new(segment_selector, ist_index, attr, handler_addr) ==
    [offset_low |-> AsU16(handler_addr),
     offset_mid |-> AsU16(Shr64(handler_addr, 16)),
     offset_high |-> AsU32(Shr64(handler_addr, 32)),
     segment_selector |-> segment_selector,
     ist_index |-> ist_index,
     attr |-> attr,
     reserved |-> 0]

\* TaskStateSegment64Descriptor::new
TaskStateSegment64Descriptor_new(base_addr) ==
    [limit_low |-> TSS_SIZE,
     base_low |-> AsU16(And64(base_addr, U64(0, 0, 0, 65535))),
     base_mid_low |-> AsU8(And64(Shr64(base_addr, 16), U64(0, 0, 0, 255))),
     attr |-> TSS_ATTR,
     base_mid_high |-> AsU8(And64(Shr64(base_addr, 24), U64(0, 0, 0, 255))),
     base_high |-> AsU32(And64(Shr64(base_addr, 32), U64(0, 0, 65535, 65535))),
     reserved |-> 0]

\* GdtWrapper::load with the two instructions exchanged
load_ltr_first == <<"ltr", "lgdt">>

\* GdtWrapper::load: the privileged instructions it executes, in order
load == <<"lgdt", "ltr">>

\* init_exceptions with write_ds ahead of write_es
init_exceptions_ds_es == <<"default">> \o load \o
    <<"write_cs", "write_ss", "write_ds", "write_es", "write_fs", "write_gs", "Idt_new">>

\* init_exceptions: its statements, in order
init_exceptions == <<"default">> \o load \o
    <<"write_cs", "write_ss", "write_es", "write_ds", "write_fs", "write_gs", "Idt_new">>

\* the statement that follows statement s
StepAfter(s) ==
    LET k == CHOOSE j \in 1..Len(init_exceptions) : init_exceptions[j] = s
    IN IF k = Len(init_exceptions) THEN "return" ELSE init_exceptions[k + 1]

\* the sub-position a statement starts in
SubOf(s) == IF s = "default" THEN "rsp0" ELSE IF s = "Idt_new" THEN "fill" ELSE "-"

NoTss == [rsp |-> <<Zero64, Zero64, Zero64>>, ist |-> [i \in 0..7 |-> Zero64]]

NoGdt == [null_segment |-> Zero64, kernel_code_segment |-> Zero64,
          kernel_data_segment |-> Zero64,
          task_state_segment |-> TaskStateSegment64Descriptor_new(Zero64)]

NoTableReg == [limit |-> 0, base |-> Zero64]

\* the registers as the firmware leaves them: its own tables and selectors
FirmwareCpu == [gdtr |-> NoTableReg, idtr |-> NoTableReg, tr |-> 0,
                cs |-> 0, ss |-> 0, ds |-> 0, es |-> 0, fs |-> 0, gs |-> 0]

BIT_TYPE_DATA == Shl64(Nat64(2), 43)

BIT_TYPE_CODE == Shl64(Nat64(3), 43)

BIT_PRESENT == Shl64(Nat64(1), 47)

BIT_CS_LONG_MODE == Shl64(Nat64(1), 53)

BIT_CS_READABLE == Shl64(Nat64(1), 41)

BIT_DS_WRITABLE == Shl64(Nat64(1), 41)

\* GdtAttr::KernelCode
KernelCode == Or64(Or64(BIT_TYPE_CODE, BIT_PRESENT), Or64(BIT_CS_LONG_MODE, BIT_CS_READABLE))

\* GdtAttr::KernelData
KernelData == Or64(Or64(BIT_TYPE_DATA, BIT_PRESENT), BIT_DS_WRITABLE)

\* the call of init_exceptions
DtInit ==
    /\ dtPc = init_exceptions[1]
    /\ dtSub = SubOf(init_exceptions[1])
    /\ dtI = 0
    /\ heapBase \in HeapBases
    /\ allocPolicy \in {"first", "last"}
    /\ heapLive \in PreLive
    /\ stacks = <<>>
    /\ tss = NoTss
    /\ tssAddr = Zero64
    /\ gdt = NoGdt
    /\ gdtAddr = Zero64
    /\ cpu = FirmwareCpu
    /\ cpuLog = <<>>
    /\ idt = <<>>
    /\ idtAddr = Zero64
    /\ handlerAddr \in HandlerLayouts

\* the descriptor tables not in use
DtParked ==
    /\ dtPc = "parked"
    /\ dtSub = "-"
    /\ dtI = 0
    /\ heapBase = Zero64
    /\ allocPolicy = "first"
    /\ heapLive = {}
    /\ stacks = <<>>
    /\ tss = NoTss
    /\ tssAddr = Zero64
    /\ gdt = NoGdt
    /\ gdtAddr = Zero64
    /\ cpu = FirmwareCpu
    /\ cpuLog = <<>>
    /\ idt = <<>>
    /\ idtAddr = Zero64
    /\ handlerAddr = [h \in HandlerIds |-> Zero64]

\* TaskStateSegment64::new: `let rsp0 = unsafe { Self::alloc_interrupt_stack() };
\* let mut ist = [0u64; 8];`
TssRsp0 ==
    /\ dtPc = "default"
    /\ dtSub = "rsp0"
    /\ \E r \in {alloc_interrupt_stack(heapLive, allocPolicy, heapBase)} :
          IF r.ok
          THEN /\ tss' = [rsp |-> <<r.rsp, Zero64, Zero64>>, ist |-> [i \in 0..7 |-> Zero64]]
               /\ heapLive' = r.live
               /\ stacks' = Append(stacks, r.off)
               /\ dtSub' = "ist"
               /\ dtI' = 1
               /\ UNCHANGED dtPc
          ELSE /\ dtPc' = "alloc_error"
               /\ UNCHANGED <<tss, heapLive, stacks, dtSub, dtI>>
    /\ UNCHANGED <<heapBase, allocPolicy, tssAddr, gdt, gdtAddr, cpu, cpuLog, idt, idtAddr,
                   handlerAddr, notDt>>

\* one round of `for ist_entry in ist[1..=7].iter_mut()`
TssIst ==
    /\ dtPc = "default"
    /\ dtSub = "ist"
    /\ \E r \in {alloc_interrupt_stack(heapLive, allocPolicy, heapBase)} :
          IF r.ok
          THEN /\ tss' = [tss EXCEPT !.ist[dtI] = r.rsp]
               /\ heapLive' = r.live
               /\ stacks' = Append(stacks, r.off)
               /\ dtSub' = IF dtI = 7 THEN "tss_box" ELSE "ist"
               /\ dtI' = IF dtI = 7 THEN 0 ELSE dtI + 1
               /\ UNCHANGED dtPc
          ELSE /\ dtPc' = "alloc_error"
               /\ UNCHANGED <<tss, heapLive, stacks, dtSub, dtI>>
    /\ UNCHANGED <<heapBase, allocPolicy, tssAddr, gdt, gdtAddr, cpu, cpuLog, idt, idtAddr,
                   handlerAddr, notDt>>

\* `Box::pin(tss64)`, and phys_addr
TssBox ==
    /\ dtPc = "default"
    /\ dtSub = "tss_box"
    /\ \E r \in {alloc(heapLive, TSS_SIZE, 1, allocPolicy)} :
          IF r.ok
          THEN /\ heapLive' = r.live
               /\ tssAddr' = Add64(heapBase, Nat64(r.off))
               /\ dtSub' = "gdt"
               /\ UNCHANGED dtPc
          ELSE /\ dtPc' = "alloc_error"
               /\ UNCHANGED <<heapLive, tssAddr, dtSub>>
    /\ UNCHANGED <<dtI, heapBase, allocPolicy, stacks, tss, gdt, gdtAddr, cpu, cpuLog, idt,
                   idtAddr, handlerAddr, notDt>>

\* GdtWrapper::default after TaskStateSegment64::new: the Gdt and Box::pin(gdt)
GdtDefault ==
    /\ dtPc = "default"
    /\ dtSub = "gdt"
    /\ \E r \in {alloc(heapLive, GDT_SIZE, 1, allocPolicy)} :
          IF r.ok
          THEN /\ heapLive' = r.live
               /\ gdtAddr' = Add64(heapBase, Nat64(r.off))
               /\ gdt' = [null_segment |-> Zero64,
                          kernel_code_segment |-> KernelCode,
                          kernel_data_segment |-> KernelData,
                          task_state_segment |-> TaskStateSegment64Descriptor_new(tssAddr)]
               /\ dtPc' = StepAfter("default")
               /\ dtSub' = SubOf(StepAfter("default"))
          ELSE /\ dtPc' = "alloc_error"
               /\ UNCHANGED <<heapLive, gdtAddr, gdt, dtSub>>
    /\ UNCHANGED <<dtI, heapBase, allocPolicy, stacks, tss, tssAddr, cpu, cpuLog, idt,
                   idtAddr, handlerAddr, notDt>>

\* `lgdt [rcx]` with limit size_of::<Gdt>() - 1
Lgdt ==
    /\ dtPc = "lgdt"
    /\ cpu' = [cpu EXCEPT !.gdtr = [limit |-> GDT_SIZE - 1, base |-> gdtAddr]]
    /\ cpuLog' = Append(cpuLog, "lgdt")
    /\ dtPc' = StepAfter("lgdt")
    /\ dtSub' = SubOf(StepAfter("lgdt"))
    /\ UNCHANGED <<dtI, heapBase, allocPolicy, heapLive, stacks, tss, tssAddr, gdt, gdtAddr,
                   idt, idtAddr, handlerAddr, notDt>>

\* `ltr cx`: the processor reads the descriptor TSS64_SEL selects in the table
\* GDTR points at and marks it busy; in the firmware's table it is no TSS
Ltr ==
    /\ dtPc = "ltr"
    /\ cpuLog' = Append(cpuLog, "ltr")
    /\ IF cpu.gdtr.base = gdtAddr /\ cpu.gdtr.limit >= TSS64_SEL + 15
       THEN /\ cpu' = [cpu EXCEPT !.tr = TSS64_SEL]
            /\ gdt' = [gdt EXCEPT !.task_state_segment.attr = BitOr(@, 2)]
            /\ dtPc' = StepAfter("ltr")
            /\ dtSub' = SubOf(StepAfter("ltr"))
       ELSE /\ dtPc' = "fault"
            /\ UNCHANGED <<cpu, gdt, dtSub>>
    /\ UNCHANGED <<dtI, heapBase, allocPolicy, heapLive, stacks, tss, tssAddr, gdtAddr,
                   idt, idtAddr, handlerAddr, notDt>>

\* segment_registers::write_cs, write_ss, write_es, write_ds, write_fs, write_gs
WriteSeg(fn, reg, selector) ==
    /\ dtPc = fn
    /\ cpu' = [cpu EXCEPT ![reg] = selector]
    /\ cpuLog' = Append(cpuLog, fn)
    /\ dtPc' = StepAfter(fn)
    /\ dtSub' = SubOf(StepAfter(fn))
    /\ UNCHANGED <<dtI, heapBase, allocPolicy, heapLive, stacks, tss, tssAddr, gdt, gdtAddr,
                   idt, idtAddr, handlerAddr, notDt>>

WriteCs == WriteSeg("write_cs", "cs", KERNEL_CS)

WriteSs == WriteSeg("write_ss", "ss", KERNEL_DS)

WriteEs == WriteSeg("write_es", "es", KERNEL_DS)

WriteDs == WriteSeg("write_ds", "ds", KERNEL_DS)

WriteFs == WriteSeg("write_fs", "fs", KERNEL_DS)

WriteGs == WriteSeg("write_gs", "gs", KERNEL_DS)

\* the gate Idt::new writes for handled vector v
GateOf(segment_selector, v) ==
    IdtDescriptor_new(segment_selector,
                      IF v = 8 THEN 2 ELSE 1,
                      IF v = 3 THEN IntGateDPL3 ELSE IntGateDPL0,
                      handlerAddr[v])

\* Idt::new: `let mut entries = [IdtDescriptor::new(.., int_handler_unimplemented); 0x100];`
IdtFill ==
    /\ dtPc = "Idt_new"
    /\ dtSub = "fill"
    /\ idt' = [v \in 0..(IDT_ENTRIES - 1) |->
                  IdtDescriptor_new(KERNEL_CS, 1, IntGateDPL0, handlerAddr[0])]
    /\ dtSub' = "set"
    /\ dtI' = 1
    /\ UNCHANGED <<dtPc, heapBase, allocPolicy, heapLive, stacks, tss, tssAddr, gdt, gdtAddr,
                   cpu, cpuLog, idtAddr, handlerAddr, notDt>>

\* Idt::new: `entries[v] = IdtDescriptor::new(..)` for the next handled vector
IdtSet ==
    /\ dtPc = "Idt_new"
    /\ dtSub = "set"
    /\ idt' = [idt EXCEPT ![Handled[dtI]] = GateOf(KERNEL_CS, Handled[dtI])]
    /\ dtSub' = IF dtI = Len(Handled) THEN "idt_box" ELSE "set"
    /\ dtI' = IF dtI = Len(Handled) THEN 0 ELSE dtI + 1
    /\ UNCHANGED <<dtPc, heapBase, allocPolicy, heapLive, stacks, tss, tssAddr, gdt, gdtAddr,
                   cpu, cpuLog, idtAddr, handlerAddr, notDt>>

\* Idt::new: `let entries = Box::pin(entries);`
IdtBox ==
    /\ dtPc = "Idt_new"
    /\ dtSub = "idt_box"
    /\ \E r \in {alloc(heapLive, IDT_ENTRIES * IDT_DESCRIPTOR_SIZE, 1, allocPolicy)} :
          IF r.ok
          THEN /\ heapLive' = r.live
               /\ idtAddr' = Add64(heapBase, Nat64(r.off))
               /\ cpuLog' = Append(cpuLog, "idt_built")
               /\ dtSub' = "lidt"
               /\ UNCHANGED dtPc
          ELSE /\ dtPc' = "alloc_error"
               /\ UNCHANGED <<heapLive, idtAddr, cpuLog, dtSub>>
    /\ UNCHANGED <<dtI, heapBase, allocPolicy, stacks, tss, tssAddr, gdt, gdtAddr, cpu, idt,
                   handlerAddr, notDt>>

\* Idt::new: `lidt [rcx]` with limit size_of_val(entries) - 1
Lidt ==
    /\ dtPc = "Idt_new"
    /\ dtSub = "lidt"
    /\ cpu' = [cpu EXCEPT !.idtr = [limit |-> IDT_ENTRIES * IDT_DESCRIPTOR_SIZE - 1,
                                    base |-> idtAddr]]
    /\ cpuLog' = Append(cpuLog, "lidt")
    /\ dtPc' = StepAfter("Idt_new")
    /\ dtSub' = SubOf(StepAfter("Idt_new"))
    /\ UNCHANGED <<dtI, heapBase, allocPolicy, heapLive, stacks, tss, tssAddr, gdt, gdtAddr,
                   idt, idtAddr, handlerAddr, notDt>>

DtNext ==
    \/ TssRsp0
    \/ TssIst
    \/ TssBox
    \/ GdtDefault
    \/ Lgdt
    \/ Ltr
    \/ WriteCs
    \/ WriteSs
    \/ WriteEs
    \/ WriteDs
    \/ WriteFs
    \/ WriteGs
    \/ IdtFill
    \/ IdtSet
    \/ IdtBox
    \/ Lidt

-----------------------------------------------------------------------------
(* Interrupt entry and dispatch: x86.rs *)

\* size_of::<FpuContext>()
FPU_CONTEXT_SIZE == 512

\* size of one register, of `_dummy`, of `error_code`
WORD == 8

\* GeneralRegisterContext, fields in declaration order (lowest address first)
GeneralRegisterContext ==
    <<"rax", "rdx", "rbx", "rbp", "rsi", "rdi", "r8", "r9", "r10", "r11",
      "r12", "r13", "r14", "r15", "rcx">>

\* InterruptContext, fields in declaration order
InterruptContext == <<"rip", "cs", "rflags", "rsp", "ss">>

\* size_of::<InterruptInfo>(): fpu_context, _dummy, greg, error_code, ctx
INTERRUPT_INFO_SIZE ==
    FPU_CONTEXT_SIZE + WORD + Len(GeneralRegisterContext) * WORD + WORD
    + Len(InterruptContext) * WORD

\* offset_of!(InterruptInfo, greg), error_code, ctx
OFFSET_GREG == FPU_CONTEXT_SIZE + WORD

OFFSET_ERROR_CODE == OFFSET_GREG + Len(GeneralRegisterContext) * WORD

OFFSET_CTX == OFFSET_ERROR_CODE + WORD

\* the pushes with rdx and rax exchanged
SaveOrder_rax_before_rdx ==
    <<"r15", "r14", "r13", "r12", "r11", "r10", "r9", "r8",
      "rdi", "rsi", "rbp", "rbx", "rax", "rdx">>

\* the pops with rbx and rbp exchanged
RestoreOrder_rbp_before_rbx ==
    <<"rax", "rdx", "rbp", "rbx", "rsi", "rdi",
      "r8", "r9", "r10", "r11", "r12", "r13", "r14", "r15">>

\* the pushes of inthandler_common, in order
SaveOrder ==
    <<"r15", "r14", "r13", "r12", "r11", "r10", "r9", "r8",
      "rdi", "rsi", "rbp", "rbx", "rdx", "rax">>

\* the pops of inthandler_common, in order
RestoreOrder ==
    <<"rax", "rdx", "rbx", "rbp", "rsi", "rdi",
      "r8", "r9", "r10", "r11", "r12", "r13", "r14", "r15">>

\* the vectors whose stub is an interrupt_entrypoint! (it pushes 0 for the error code)
SyntheticErrorCode == {3, 6, 32}

\* the vectors whose stub is an interrupt_entrypoint_with_ecode!
StubWithEcode == {8, 13, 14}

\* the vectors for which the processor pushes an error code
CpuErrorCode == {8, 10, 11, 12, 13, 14, 17, 21, 29, 30}

\* the registers a sysv64 function may change
CallerSaved == {"rax", "rcx", "rdx", "rsi", "rdi", "r8", "r9", "r10", "r11"}

RegNames == {GeneralRegisterContext[k] : k \in 1..Len(GeneralRegisterContext)} \cup {"rsp"}

\* the interrupted code: general register k holds seed + k, rsp is its own stack
InterruptedRegs(seed, sp) ==
    [r \in RegNames |->
        IF r = "rsp" THEN sp
        ELSE seed + (CHOOSE k \in 1..Len(GeneralRegisterContext) : GeneralRegisterContext[k] = r)]

\* the interrupt stacks' tops, as TaskStateSegment64::new leaves them in IST1 and IST2
IstTops == {<<196608, 327680>>, <<196616, 327688>>, <<201276, 332348>>}

\* `push v`
Push(r, m, v) == [regs |-> [r EXCEPT !["rsp"] = @ - WORD],
                  stk |-> [a \in DOMAIN m \cup {r["rsp"] - WORD} |->
                             IF a = r["rsp"] - WORD THEN v ELSE m[a]]]

RECURSIVE PushAll(_, _, _)
\* `push` of each value in turn
PushAll(r, m, vs) ==
    IF vs = <<>> THEN [regs |-> r, stk |-> m]
    ELSE LET p == Push(r, m, Head(vs)) IN PushAll(p.regs, p.stk, Tail(vs))

\* inthandler: `error!("Interrupt Info: ..")` goes through global_print, which
\* takes the lock of GLOBAL_VRAM_WRITER (a spin lock: it spins while the lock
\* is held); then the message of the match arm and panic!("fatal exception")
inthandler(index, lockHeld) ==
    [message |-> CASE index = 3 -> "Breakpoint"
                   [] index = 6 -> "Invalid Opcode"
                   [] index = 8 -> "Double Fault"
                   [] index = 13 -> "General Protection Fault"
                   [] index = 14 -> "Page Fault"
                   [] OTHER -> "Not handled",
     outcome |-> IF lockHeld THEN "spin" ELSE "panic"]

NoEntry == [regs |-> InterruptedRegs(0, 0), rip |-> 0, cs |-> 0, rflags |-> 0, ss |-> 0,
            error_code |-> 0]

NoFrame == [rip |-> 0, cs |-> 0, rflags |-> 0, rsp |-> 0, ss |-> 0]

\* code running with the IDT and TSS of init_exceptions loaded
IhInit ==
    /\ ihPc = "running"
    /\ ihVec = 0
    /\ \E seed \in {100, 4000}, sp \in {65528, 65532} : regs = InterruptedRegs(seed, sp)
    /\ stk = <<>>
    /\ ihI = 0
    /\ ihEntry = NoEntry
    /\ ihTop \in IstTops
    /\ ihRspErr = 0
    /\ ihFrame = NoFrame
    /\ ihDispatcher = "none"
    /\ ihLock \in BOOLEAN

\* no interrupt handling
IhParked ==
    /\ ihPc = "parked"
    /\ ihVec = 0
    /\ regs = InterruptedRegs(0, 0)
    /\ stk = <<>>
    /\ ihI = 0
    /\ ihEntry = NoEntry
    /\ ihTop = <<0, 0>>
    /\ ihRspErr = 0
    /\ ihFrame = NoFrame
    /\ ihDispatcher = "none"
    /\ ihLock = FALSE

\* the IST index of the gate Idt::new writes for vector v
IstIndexOf(v) == IF v = 8 THEN 2 ELSE 1

\* the processor delivers vector v through its gate: it switches to the IST
\* stack, aligns rsp to 16, pushes SS, RSP, RFLAGS, CS, RIP and, for some
\* vectors, an error code, and jumps to the gate's handler
Deliver(v) ==
    /\ ihPc = "running"
    /\ \E ec \in {0, 2} :
       \E r0 \in {[regs EXCEPT !["rsp"] = AlignDown(ihTop[IstIndexOf(v)], 16)]} :
       \E p1 \in {PushAll(r0, stk, <<KERNEL_DS, regs["rsp"], 514, KERNEL_CS, 1052672>>)} :
       \E p2 \in {IF v \in CpuErrorCode THEN Push(p1.regs, p1.stk, ec) ELSE p1} :
          /\ v \notin CpuErrorCode => ec = 0
          /\ regs' = p2.regs
          /\ stk' = p2.stk
          /\ ihEntry' = [regs |-> regs, rip |-> 1052672, cs |-> KERNEL_CS, rflags |-> 514,
                         ss |-> KERNEL_DS, error_code |-> ec]
          /\ ihRspErr' = IF v \in CpuErrorCode THEN p2.regs["rsp"] ELSE 0
    /\ ihVec' = v
    /\ ihPc' = IF HandlerOf(v) = 0 THEN "int_handler_unimplemented"
               ELSE IF v \in StubWithEcode THEN "stub_rcx" ELSE "stub_push0"
    /\ UNCHANGED <<ihI, ihTop, ihFrame, ihDispatcher, ihLock, notIh>>

\* an interrupt or exception of any vector
Interrupt == \E v \in 0..(IDT_ENTRIES - 1) : Deliver(v)

\* an interrupt or exception of a vector that has a stub
InterruptHandled == \E v \in HandledSet : Deliver(v)

\* interrupt_entrypoint!: `push 0`
StubPush0 ==
    /\ ihPc = "stub_push0"
    /\ \E p \in {Push(regs, stk, 0)} :
          /\ regs' = p.regs
          /\ stk' = p.stk
          /\ ihRspErr' = p.regs["rsp"]
    /\ ihPc' = "stub_rcx"
    /\ UNCHANGED <<ihVec, ihI, ihEntry, ihTop, ihFrame, ihDispatcher, ihLock, notIh>>

\* both stubs: `push rcx; mov rcx, index; jmp inthandler_common`
StubRcx ==
    /\ ihPc = "stub_rcx"
    /\ \E p \in {Push(regs, stk, regs["rcx"])} :
          /\ regs' = [p.regs EXCEPT !["rcx"] = ihVec]
          /\ stk' = p.stk
    /\ ihPc' = "save"
    /\ ihI' = 1
    /\ UNCHANGED <<ihVec, ihEntry, ihTop, ihRspErr, ihFrame, ihDispatcher, ihLock, notIh>>

\* inthandler_common: the next of `push r15` ... `push rax`
SaveGreg ==
    /\ ihPc = "save"
    /\ \E p \in {Push(regs, stk, regs[SaveOrder[ihI]])} :
          /\ regs' = p.regs
          /\ stk' = p.stk
    /\ ihPc' = IF ihI = Len(SaveOrder) THEN "fxsave" ELSE "save"
    /\ ihI' = IF ihI = Len(SaveOrder) THEN 0 ELSE ihI + 1
    /\ UNCHANGED <<ihVec, ihEntry, ihTop, ihRspErr, ihFrame, ihDispatcher, ihLock, notIh>>

\* the FPU save with `sub rsp, 512`: no padding word
SaveFpu_no_pad ==
    /\ ihPc = "fxsave"
    /\ \E sp \in {regs["rsp"] - FPU_CONTEXT_SIZE} :
          /\ regs' = [regs EXCEPT !["rsp"] = sp]
          /\ stk' = [a \in DOMAIN stk \cup {sp} |-> IF a = sp THEN "fpu" ELSE stk[a]]
          /\ ihPc' = IF sp % 16 = 0 THEN "args" ELSE "fault"
    /\ UNCHANGED <<ihVec, ihI, ihEntry, ihTop, ihRspErr, ihFrame, ihDispatcher, ihLock, notIh>>

\* inthandler_common: `sub rsp, 512 + 8; fxsave64 [rsp]`; fxsave64 faults on
\* an address that is not a multiple of 16
SaveFpu ==
    /\ ihPc = "fxsave"
    /\ \E sp \in {regs["rsp"] - (FPU_CONTEXT_SIZE + WORD)} :
          /\ regs' = [regs EXCEPT !["rsp"] = sp]
          /\ stk' = [a \in DOMAIN stk \cup {sp} |-> IF a = sp THEN "fpu" ELSE stk[a]]
          /\ ihPc' = IF sp % 16 = 0 THEN "args" ELSE "fault"
    /\ UNCHANGED <<ihVec, ihI, ihEntry, ihTop, ihRspErr, ihFrame, ihDispatcher, ihLock, notIh>>

\* the argument set-up without `mov rsi, rcx`
CallArgs_rsi_unset ==
    /\ ihPc = "args"
    /\ regs' = [regs EXCEPT !["rdi"] = regs["rsp"], !["rbp"] = regs["rsp"],
                            !["rsp"] = AlignDown(regs["rsp"], 16)]
    /\ ihPc' = "call"
    /\ UNCHANGED <<ihVec, stk, ihI, ihEntry, ihTop, ihRspErr, ihFrame, ihDispatcher, ihLock, notIh>>

\* inthandler_common: `mov rdi, rsp; mov rbp, rsp; and rsp, -16; mov rsi, rcx`
CallArgs ==
    /\ ihPc = "args"
    /\ regs' = [regs EXCEPT !["rdi"] = regs["rsp"], !["rbp"] = regs["rsp"],
                            !["rsp"] = AlignDown(regs["rsp"], 16), !["rsi"] = regs["rcx"]]
    /\ ihPc' = "call"
    /\ UNCHANGED <<ihVec, stk, ihI, ihEntry, ihTop, ihRspErr, ihFrame, ihDispatcher, ihLock, notIh>>

\* inthandler_common: `call inthandler`, and inthandler itself
CallInthandler ==
    /\ ihPc = "call"
    /\ ihDispatcher' = "inthandler"
    /\ ihPc' = (CASE inthandler(regs["rsi"], ihLock).outcome = "panic" -> "panicked"
                  [] inthandler(regs["rsi"], ihLock).outcome = "spin" -> "spinning"
                  [] OTHER -> "restore")
    /\ UNCHANGED <<ihVec, regs, stk, ihI, ihEntry, ihTop, ihRspErr, ihFrame, ihLock, notIh>>

\* int_handler_unimplemented: panic!("unexpected interrupt!")
IntHandlerUnimplemented ==
    /\ ihPc = "int_handler_unimplemented"
    /\ ihDispatcher' = "int_handler_unimplemented"
    /\ ihPc' = "panicked"
    /\ UNCHANGED <<ihVec, regs, stk, ihI, ihEntry, ihTop, ihRspErr, ihFrame, ihLock, notIh>>

\* inthandler_common: `call inthandler` with a sysv64 function that returns:
\* it keeps rsp, rbx, rbp, r12..r15 and the frame it was given a shared reference to
CallReturns ==
    /\ ihPc = "call"
    /\ ihDispatcher' = "returning"
    /\ \E junk \in {0, 9999} :
          regs' = [r \in RegNames |-> IF r \in CallerSaved THEN junk ELSE regs[r]]
    /\ ihPc' = "restore"
    /\ UNCHANGED <<ihVec, stk, ihI, ihEntry, ihTop, ihRspErr, ihFrame, ihLock, notIh>>

\* inthandler_common: `mov rsp, rbp; fxrstor64 [rsp]; add rsp, 512 + 8`
RestoreFpu ==
    /\ ihPc = "restore"
    /\ regs' = [regs EXCEPT !["rsp"] = regs["rbp"] + (FPU_CONTEXT_SIZE + WORD)]
    /\ ihPc' = IF regs["rbp"] % 16 = 0 /\ regs["rbp"] \in DOMAIN stk THEN "pop" ELSE "fault"
    /\ ihI' = 1
    /\ UNCHANGED <<ihVec, stk, ihEntry, ihTop, ihRspErr, ihFrame, ihDispatcher, ihLock, notIh>>

\* inthandler_common: the next of `pop rax` ... `pop r15`
RestoreGreg ==
    /\ ihPc = "pop"
    /\ regs' = [regs EXCEPT ![RestoreOrder[ihI]] = stk[regs["rsp"]],
                            !["rsp"] = regs["rsp"] + WORD]
    /\ ihPc' = IF ihI = Len(RestoreOrder) THEN "pop_rcx" ELSE "pop"
    /\ ihI' = IF ihI = Len(RestoreOrder) THEN 0 ELSE ihI + 1
    /\ UNCHANGED <<ihVec, stk, ihEntry, ihTop, ihRspErr, ihFrame, ihDispatcher, ihLock, notIh>>

\* inthandler_common: `pop rcx; add rsp, 8`
RestoreRcx ==
    /\ ihPc = "pop_rcx"
    /\ regs' = [regs EXCEPT !["rcx"] = stk[regs["rsp"]], !["rsp"] = regs["rsp"] + WORD + WORD]
    /\ ihPc' = "iretq"
    /\ UNCHANGED <<ihVec, stk, ihI, ihEntry, ihTop, ihRspErr, ihFrame, ihDispatcher, ihLock, notIh>>

\* `iretq`: the processor pops RIP, CS, RFLAGS, RSP, SS
Iretq ==
    /\ ihPc = "iretq"
    /\ \E sp \in {regs["rsp"]} :
          /\ ihFrame' = [rip |-> stk[sp], cs |-> stk[sp + WORD], rflags |-> stk[sp + 2 * WORD],
                         rsp |-> stk[sp + 3 * WORD], ss |-> stk[sp + 4 * WORD]]
          /\ regs' = [regs EXCEPT !["rsp"] = stk[sp + 3 * WORD]]
    /\ ihPc' = "resumed"
    /\ UNCHANGED <<ihVec, stk, ihI, ihEntry, ihTop, ihRspErr, ihDispatcher, ihLock, notIh>>

\* the kernel as built: every dispatcher is the Rust function the IDT names
IhNext ==
    \/ Interrupt
    \/ StubPush0
    \/ StubRcx
    \/ SaveGreg
    \/ SaveFpu
    \/ CallArgs
    \/ CallInthandler
    \/ IntHandlerUnimplemented

\* the stubs and inthandler_common around a dispatcher that returns
AsmNext ==
    \/ InterruptHandled
    \/ StubPush0
    \/ StubRcx
    \/ SaveGreg
    \/ SaveFpu
    \/ CallArgs
    \/ CallReturns
    \/ RestoreFpu
    \/ RestoreGreg
    \/ RestoreRcx
    \/ Iretq

-----------------------------------------------------------------------------
(* The diagnostic of inthandler: x86.rs *)

\* the error codes decoded: the five bits the processor defines for a page
\* fault, and the next one above them
ErrorCodes == 0..63

\* `error_code & mask != 0` for mask = 2^b
BitSet(x, b) == (x \div Pow2(b)) % 2 = 1

\* the page-fault arm with the write bit tested before the fetch bit
page_fault_cause_write_first(error_code) ==
    [mode |-> IF BitSet(error_code, 2) THEN "user" ELSE "supervisor",
     access |-> IF BitSet(error_code, 1) THEN "data write"
                ELSE IF BitSet(error_code, 4) THEN "instruction fetch"
                ELSE "data read",
     page |-> IF BitSet(error_code, 0) THEN "present" ELSE "non-present",
     structures |-> IF BitSet(error_code, 3) THEN "invalid" ELSE "valid"]

\* the arguments of "Caused by: A {} mode {} on a {} page, page structures are {}"
page_fault_cause(error_code) ==
    [mode |-> IF BitSet(error_code, 2) THEN "user" ELSE "supervisor",
     access |-> IF BitSet(error_code, 4) THEN "instruction fetch"
                ELSE IF BitSet(error_code, 1) THEN "data write"
                ELSE "data read",
     page |-> IF BitSet(error_code, 0) THEN "present" ELSE "non-present",
     structures |-> IF BitSet(error_code, 3) THEN "invalid" ELSE "valid"]

\* what inthandler prints when no print blocks: the two opening lines, the
\* lines of the match arm and, in the page-fault arm, the decoded cause
diagnostic(index, error_code) ==
    [lines |-> <<"Interrupt Info", "Exception">> \o
               (CASE index = 3 -> <<"Breakpoint">>
                  [] index = 6 -> <<"Invalid Opcode">>
                  [] index = 8 -> <<"Double Fault">>
                  [] index = 13 -> <<"General Protection Fault", "Bytes @ RIP", "  = bytes">>
                  [] index = 14 -> <<"Page Fault", "CR2", "Caused by">>
                  [] OTHER -> <<"Not handled">>),
     cause |-> IF index = 14 THEN <<page_fault_cause(error_code)>> ELSE <<>>]

NoDiag == [lines |-> <<>>, cause |-> <<>>]

PfInit ==
    /\ pfIndex \in HandledSet \cup {0, 255}
    /\ pfCode \in ErrorCodes
    /\ pfDiag = NoDiag

\* inthandler is not called
PfParked ==
    /\ pfIndex = 0
    /\ pfCode = 0
    /\ pfDiag = NoDiag

\* inthandler(info, index) up to its panic
Diagnose ==
    /\ pfDiag = NoDiag
    /\ pfCode \in ErrorCodes
    /\ pfDiag' = diagnostic(pfIndex, pfCode)
    /\ UNCHANGED <<pfIndex, pfCode, notPf>>

PfNext == Diagnose

-----------------------------------------------------------------------------
(* Drawing: main.rs *)

\* drawing calls in one run
MaxDraws == 2

\* VramBufferInfo::bytes_per_pixel
BYTES_PER_PIXEL == 4

\* the framebuffers drawn to: the stride above, below and equal to the width
Geometries ==
    { [width |-> 2, height |-> 2, pixels_per_line |-> 3],
      [width |-> 3, height |-> 2, pixels_per_line |-> 2],
      [width |-> 2, height |-> 3, pixels_per_line |-> 2] }

\* the coordinates passed: negative ones, and ones past every edge
Coords == (0 - 1)..3

Colors == {1, 2}

Min(a, b) == IF a < b THEN a ELSE b

\* Bitmap::is_in_x_range that tests the width only
is_in_x_range_width_only(b, px) == 0 <= px /\ px < b.width

\* Bitmap::is_in_x_range
is_in_x_range(b, px) == 0 <= px /\ px < Min(b.width, b.pixels_per_line)

\* Bitmap::is_in_y_range
is_in_y_range(b, py) == 0 <= py /\ py < b.height

\* Bitmap::unchecked_pixel_at_mut: the byte offset added to buf; `as usize`
\* leaves a value that is not negative as it is
unchecked_pixel_at_mut(b, x, y) ==
    (y * b.pixels_per_line + x) * BYTES_PER_PIXEL

\* Bitmap::pixel_at_mut: Some(offset) as <<offset>>, None as <<>>
pixel_at_mut(b, x, y) ==
    IF is_in_x_range(b, x) /\ is_in_y_range(b, y)
    THEN <<unchecked_pixel_at_mut(b, x, y)>>
    ELSE <<>>

\* draw_point: ok_or("Out of Range")?, then the store through the reference
draw_point(b, x, y) ==
    IF pixel_at_mut(b, x, y) = <<>>
    THEN [result |-> "Out of Range", writes |-> {}]
    ELSE [result |-> "Ok", writes |-> {pixel_at_mut(b, x, y)[1]}]

\* the byte offsets of the pixels of the framebuffer
FbOffsets(b) == {BYTES_PER_PIXEL * k : k \in 0..(b.height * b.pixels_per_line - 1)}

NoDraw == [x |-> 0, y |-> 0, color |-> 0, result |-> "none", writes |-> {}]

GfxInit ==
    /\ gfxBuf \in Geometries
    /\ vram = [o \in FbOffsets(gfxBuf) |-> 0]
    /\ gfxBefore = vram
    /\ gfxLast = NoDraw
    /\ gfxCalls = 0

\* nothing is drawn
GfxParked ==
    /\ gfxBuf = [width |-> 0, height |-> 0, pixels_per_line |-> 0]
    /\ vram = <<>>
    /\ gfxBefore = <<>>
    /\ gfxLast = NoDraw
    /\ gfxCalls = 0

\* memory after the stores of one drawing call
Stored(m, writes, color) ==
    [o \in DOMAIN m \cup writes |-> IF o \in writes THEN color ELSE m[o]]

\* draw_point(&mut vram, color, x, y)
DrawPoint ==
    /\ gfxCalls < MaxDraws
    /\ \E x \in Coords, y \in Coords, color \in Colors :
          \E r \in {draw_point(gfxBuf, x, y)} :
             /\ gfxBefore' = vram
             /\ vram' = Stored(vram, r.writes, color)
             /\ gfxLast' = [x |-> x, y |-> y, color |-> color,
                            result |-> r.result, writes |-> r.writes]
    /\ gfxCalls' = gfxCalls + 1
    /\ UNCHANGED <<gfxBuf, notGfx>>

GfxNext == DrawPoint

-----------------------------------------------------------------------------
(* Rectangle fill: main.rs *)

\* the largest i64 of the model; the smallest is the negative one past it
I64Max == 7

I64Min == 0 - I64Max - 1

\* the widths and heights passed: zero, negative ones, and the ends of i64
Extents == {I64Min, 0 - 1, 0, 1, 2, 3, I64Max}

Overflows(n) == n < I64Min \/ n > I64Max

\* two's complement: the value an i64 operation leaves when it wraps
Wrap(n) == ((n - I64Min) % (2 * I64Max + 2)) + I64Min

\* `p + e - 1` in i64: the addition, then the subtraction
EndOverflows(p, e) == Overflows(p + e) \/ Overflows(Wrap(p + e) - 1)

End(p, e) == Wrap(Wrap(p + e) - 1)

\* the two loops of fill_rect over py..py + h and px..px + w: the offsets
\* unchecked_draw_point stores to
FillLoops(b, px, py, w, h) ==
    {unchecked_pixel_at_mut(b, x, y) :
        x \in px..(Wrap(px + w) - 1), y \in py..(Wrap(py + h) - 1)}

\* fill_rect: the four tests in their order, an overflow in `px + w - 1` or
\* `py + h - 1` panicking in a build that checks it, then the two loops
fill_rect(b, px, py, w, h, checks) ==
    IF ~is_in_x_range(b, px) \/ ~is_in_y_range(b, py)
    THEN [result |-> "Out of Range", writes |-> {}]
    ELSE IF checks /\ EndOverflows(px, w)
    THEN [result |-> "panic", writes |-> {}]
    ELSE IF ~is_in_x_range(b, End(px, w))
    THEN [result |-> "Out of Range", writes |-> {}]
    ELSE IF checks /\ EndOverflows(py, h)
    THEN [result |-> "panic", writes |-> {}]
    ELSE IF ~is_in_y_range(b, End(py, h))
    THEN [result |-> "Out of Range", writes |-> {}]
    ELSE [result |-> "Ok", writes |-> FillLoops(b, px, py, w, h)]

NoFill == [px |-> 0, py |-> 0, w |-> 0, h |-> 0, color |-> 0,
           result |-> "none", writes |-> {}]

\* a framebuffer with nothing drawn yet, and the build's overflow checks
FrInit ==
    /\ frBuf \in Geometries
    /\ frChecks \in BOOLEAN
    /\ frVram = [o \in FbOffsets(frBuf) |-> 0]
    /\ frBefore = frVram
    /\ frLast = NoFill

\* nothing is filled
FrParked ==
    /\ frBuf = [width |-> 0, height |-> 0, pixels_per_line |-> 0]
    /\ frChecks = FALSE
    /\ frVram = <<>>
    /\ frBefore = <<>>
    /\ frLast = NoFill

\* fill_rect(&mut vram, color, px, py, w, h)
FillRect ==
    /\ frLast.result = "none"
    /\ \E px \in Coords, py \in Coords, w \in Extents, h \in Extents, color \in Colors :
          \E r \in {fill_rect(frBuf, px, py, w, h, frChecks)} :
             /\ frBefore' = frVram
             /\ frVram' = Stored(frVram, r.writes, color)
             /\ frLast' = [px |-> px, py |-> py, w |-> w, h |-> h, color |-> color,
                           result |-> r.result, writes |-> r.writes]
    /\ UNCHANGED <<frBuf, frChecks, notFr>>

FrNext == FillRect

-----------------------------------------------------------------------------
(* Allocation test: tests.rs *)

\* allocations in one run
MaxAllocs == 3

\* Layout::from_size_align(128, align)
ALLOC_SIZE == 128

\* the alignments malloc_align_test asks for
Aligns == {1, 2, 4, 8, 16, 32, 64, 4096}

\* `(*p as usize) % align` for p = base + off: every alignment asked divides
\* 2^16, so the lowest limb of the base decides
PtrMod(base, off, align) == (base[1] + off) % align

AlInit ==
    /\ alBase \in HeapBases
    /\ alPolicy \in {"first", "last"}
    /\ alLive \in PreLive
    /\ alPtrs = <<>>
    /\ alPc = "running"

\* no allocation test runs
AlParked ==
    /\ alBase = Zero64
    /\ alPolicy = "first"
    /\ alLive = {}
    /\ alPtrs = <<>>
    /\ alPc = "none"

\* one round of malloc_align_test's loop body: alloc_with_options, then the
\* assert on the pointer (a null pointer passes it)
AllocAligned ==
    /\ alPc = "running"
    /\ Len(alPtrs) < MaxAllocs
    /\ \E align \in Aligns :
          \E r \in {alloc(alLive, ALLOC_SIZE, align, alPolicy)} :
             /\ alLive' = r.live
             /\ alPtrs' = Append(alPtrs, [ok |-> r.ok, off |-> r.off, align |-> align])
             /\ alPc' = IF ~r.ok \/ PtrMod(alBase, r.off, align) = 0
                        THEN "running" ELSE "panicked"
    /\ UNCHANGED <<alBase, alPolicy, notAl>>

AlNext == AllocAligned

-----------------------------------------------------------------------------
(* Executor: executor.rs, single-threaded and cooperative *)

\* the clock stops here
MaxNow == 3

PrintOp(c) == [op |-> "print", arg |-> c]

YieldOp == [op |-> "yield", arg |-> 0]

SleepOp(d) == [op |-> "sleep", arg |-> d]

TaskAbc == <<PrintOp("A"), YieldOp, PrintOp("B"), YieldOp, PrintOp("C")>>

TaskXyz == <<PrintOp("X"), YieldOp, PrintOp("Y"), YieldOp, PrintOp("Z")>>

TaskOne == <<SleepOp(1), PrintOp("one")>>

TaskTwo == <<SleepOp(2), PrintOp("two")>>

\* the tasks spawned at startup, in order of spawning
TaskLists ==
    { <<TaskAbc, TaskXyz>>, <<TaskXyz, TaskAbc>>, <<TaskOne, TaskTwo>>,
      <<TaskTwo, TaskOne>>, <<TaskAbc, TaskOne>>, <<TaskTwo, TaskXyz, TaskOne>> }

\* yield_now that puts the task at the head of the ready queue
yield_now_head(ready, t) == <<t>> \o ready

\* yield_now, first poll: the current task goes to the tail of the ready queue
yield_now(ready, t) == Append(ready, t)

\* the sleepers whose deadline has passed
Expired(sleeping, now) == {e \in sleeping : e.deadline <= now}

\* a sleeping set in deadline order, ties in order of insertion
RECURSIVE InDeadlineOrder(_)
InDeadlineOrder(es) ==
    IF es = {} THEN <<>>
    ELSE LET e == CHOOSE x \in es : \A y \in es :
                      \/ x.deadline < y.deadline
                      \/ (x.deadline = y.deadline /\ x.seq <= y.seq)
         IN <<e.task>> \o InDeadlineOrder(es \ {e})

\* waking that leaves the woken tasks in the sleeping set
StillSleeping_kept(sleeping, now) == sleeping

\* the sleeping set after the expired sleepers moved to the ready queue
StillSleeping(sleeping, now) == sleeping \ Expired(sleeping, now)

ExInit ==
    /\ exProg \in TaskLists
    /\ exPos = [t \in DOMAIN exProg |-> 1]
    /\ exSpawned = 0
    /\ exReady = <<>>
    /\ exSleeping = {}
    /\ exPolled = {}
    /\ exDone = {}
    /\ exPc = "spawning"
    /\ exNow = 0
    /\ exOut = <<>>
    /\ exSeq = 0

\* no executor runs
ExParked ==
    /\ exProg = <<>>
    /\ exPos = <<>>
    /\ exSpawned = 0
    /\ exReady = <<>>
    /\ exSleeping = {}
    /\ exPolled = {}
    /\ exDone = {}
    /\ exPc = "none"
    /\ exNow = 0
    /\ exOut = <<>>
    /\ exSeq = 0

\* spawn(task): enqueue Ready
Spawn ==
    /\ exPc = "spawning"
    /\ exSpawned < Len(exProg)
    /\ exSpawned' = exSpawned + 1
    /\ exReady' = Append(exReady, exSpawned + 1)
    /\ UNCHANGED <<exProg, exPos, exSleeping, exPolled, exDone, exPc, exNow, exOut, exSeq, notEx>>

\* the startup tasks are spawned: enter the executor
EnterRun ==
    /\ exPc = "spawning"
    /\ exSpawned = Len(exProg)
    /\ exPc' = "wake"
    /\ UNCHANGED <<exProg, exPos, exSpawned, exReady, exSleeping, exPolled, exDone,
                   exNow, exOut, exSeq, notEx>>

\* the monotonic timer advances
Tick ==
    /\ exPc \notin {"none", "idle"}
    /\ exNow < MaxNow
    /\ exNow' = exNow + 1
    /\ UNCHANGED <<exProg, exPos, exSpawned, exReady, exSleeping, exPolled, exDone,
                   exPc, exOut, exSeq, notEx>>

\* run loop, step 1: the sleepers whose deadline <= now_ns() go to the ready FIFO
WakeExpired ==
    /\ exPc = "wake"
    /\ exReady' = exReady \o InDeadlineOrder(Expired(exSleeping, exNow))
    /\ exSleeping' = StillSleeping(exSleeping, exNow)
    /\ exPc' = "pick"
    /\ UNCHANGED <<exProg, exPos, exSpawned, exPolled, exDone, exNow, exOut, exSeq, notEx>>

\* run loop, step 2: pop the head of the ready FIFO and poll it
PollHead ==
    /\ exPc = "pick"
    /\ exReady # <<>>
    /\ exPolled' = exPolled \cup {Head(exReady)}
    /\ exReady' = Tail(exReady)
    /\ exPc' = "polling"
    /\ UNCHANGED <<exProg, exPos, exSpawned, exSleeping, exDone, exNow, exOut, exSeq, notEx>>

\* run loop, step 3: nothing ready: halt while a task sleeps, and loop
Halt ==
    /\ exPc = "pick"
    /\ exReady = <<>>
    /\ exPc' = IF exSleeping # {} THEN "wake" ELSE "idle"
    /\ UNCHANGED <<exProg, exPos, exSpawned, exReady, exSleeping, exPolled, exDone,
                   exNow, exOut, exSeq, notEx>>

\* the polled task prints
TaskPrint ==
    /\ exPc = "polling"
    /\ \E t \in exPolled :
          /\ exPos[t] <= Len(exProg[t])
          /\ exProg[t][exPos[t]].op = "print"
          /\ exOut' = Append(exOut, exProg[t][exPos[t]].arg)
          /\ exPos' = [exPos EXCEPT ![t] = @ + 1]
    /\ UNCHANGED <<exProg, exSpawned, exReady, exSleeping, exPolled, exDone, exPc,
                   exNow, exSeq, notEx>>

\* the polled task awaits yield_now(): Pending, and it is enqueued again
TaskYield ==
    /\ exPc = "polling"
    /\ \E t \in exPolled :
          /\ exPos[t] <= Len(exProg[t])
          /\ exProg[t][exPos[t]].op = "yield"
          /\ exReady' = yield_now(exReady, t)
          /\ exPos' = [exPos EXCEPT ![t] = @ + 1]
          /\ exPolled' = exPolled \ {t}
    /\ exPc' = "wake"
    /\ UNCHANGED <<exProg, exSpawned, exSleeping, exDone, exNow, exOut, exSeq, notEx>>

\* the polled task awaits sleep(d): deadline = now_ns() + d, registered in the
\* sleeping set, Pending
TaskSleep ==
    /\ exPc = "polling"
    /\ \E t \in exPolled :
          /\ exPos[t] <= Len(exProg[t])
          /\ exProg[t][exPos[t]].op = "sleep"
          /\ exSleeping' = exSleeping \cup
                 {[deadline |-> exNow + exProg[t][exPos[t]].arg, task |-> t,
                   seq |-> exSeq]}
          /\ exSeq' = exSeq + 1
          /\ exPos' = [exPos EXCEPT ![t] = @ + 1]
          /\ exPolled' = exPolled \ {t}
    /\ exPc' = "wake"
    /\ UNCHANGED <<exProg, exSpawned, exReady, exDone, exNow, exOut, notEx>>

\* the polled task's future returns Ready: the task is dropped
TaskReady ==
    /\ exPc = "polling"
    /\ \E t \in exPolled :
          /\ exPos[t] > Len(exProg[t])
          /\ exDone' = exDone \cup {t}
          /\ exPolled' = exPolled \ {t}
    /\ exPc' = "wake"
    /\ UNCHANGED <<exProg, exPos, exSpawned, exReady, exSleeping, exNow, exOut, exSeq, notEx>>

ExNext ==
    \/ Spawn
    \/ EnterRun
    \/ Tick
    \/ WakeExpired
    \/ PollHead
    \/ Halt
    \/ TaskPrint
    \/ TaskYield
    \/ TaskSleep
    \/ TaskReady

-----------------------------------------------------------------------------
(* Test harness: test_runner.rs, qemu.rs *)

\* tests in the slice
MaxTests == 3

\* rounds of the closing `loop { hlt(); }` followed
MaxHlts == 2

\* the port of the isa-debug-exit device
DEBUG_EXIT_PORT == 244

\* QemuExitCode with the values exchanged
QemuExitCode_exchanged(code) == IF code = "Success" THEN 2 ELSE 1

\* `exit_code as u8` of QemuExitCode
QemuExitCode(code) == IF code = "Success" THEN 1 ELSE 2

ThInit ==
    /\ thTests \in UNION {[1..n -> {"returns", "panics"}] : n \in 0..MaxTests}
    /\ thPc = "start"
    /\ thIdx = 0
    /\ thRan = <<>>
    /\ thReturned = {}
    /\ thCode = "none"
    /\ thSerial = <<>>
    /\ thPort = <<>>
    /\ thHlts = 0

\* no test build runs
ThParked ==
    /\ thTests = <<>>
    /\ thPc = "none"
    /\ thIdx = 0
    /\ thRan = <<>>
    /\ thReturned = {}
    /\ thCode = "none"
    /\ thSerial = <<>>
    /\ thPort = <<>>
    /\ thHlts = 0

\* test_runner up to its loop
RunnerStart ==
    /\ thPc = "start"
    /\ thSerial' = Append(thSerial, "Running tests...")
    /\ thIdx' = 1
    /\ thPc' = "loop"
    /\ UNCHANGED <<thTests, thRan, thReturned, thCode, thPort, thHlts, notTh>>

\* the loop takes the next test; Testable::run up to the call self()
TestRun ==
    /\ thPc = "loop"
    /\ thIdx <= Len(thTests)
    /\ thSerial' = Append(thSerial, "[RUNNING]")
    /\ thRan' = Append(thRan, thIdx)
    /\ thPc' = "in_test"
    /\ UNCHANGED <<thTests, thIdx, thReturned, thCode, thPort, thHlts, notTh>>

\* self() returns; the rest of Testable::run
TestReturns ==
    /\ thPc = "in_test"
    /\ thTests[thIdx] = "returns"
    /\ thSerial' = Append(thSerial, "[PASS   ]")
    /\ thReturned' = thReturned \cup {thIdx}
    /\ thIdx' = thIdx + 1
    /\ thPc' = "loop"
    /\ UNCHANGED <<thTests, thRan, thCode, thPort, thHlts, notTh>>

\* self() panics: the panic handler up to its call of exit_qemu
TestPanics ==
    /\ thPc = "in_test"
    /\ thTests[thIdx] = "panics"
    /\ thSerial' = Append(thSerial, "PANIC during test")
    /\ thCode' = "Fail"
    /\ thPc' = "exit_qemu"
    /\ UNCHANGED <<thTests, thIdx, thRan, thReturned, thPort, thHlts, notTh>>

\* the loop is over: the rest of test_runner up to its call of exit_qemu
AllPassed ==
    /\ thPc = "loop"
    /\ thIdx > Len(thTests)
    /\ thSerial' = Append(thSerial, "All tests passed.")
    /\ thCode' = "Success"
    /\ thPc' = "exit_qemu"
    /\ UNCHANGED <<thTests, thIdx, thRan, thReturned, thPort, thHlts, notTh>>

\* exit_qemu up to its closing loop
ExitQemu ==
    /\ thPc = "exit_qemu"
    /\ thSerial' = Append(thSerial, "[EXIT] Sending exit code")
    /\ thPort' = Append(thPort, [port |-> DEBUG_EXIT_PORT, value |-> QemuExitCode(thCode)])
    /\ thPc' = "halted"
    /\ UNCHANGED <<thTests, thIdx, thRan, thReturned, thCode, thHlts, notTh>>

\* one round of `loop { hlt(); }`: the machine is still there and hlt returned
Hlt ==
    /\ thPc = "halted"
    /\ thHlts < MaxHlts
    /\ thHlts' = thHlts + 1
    /\ UNCHANGED <<thTests, thPc, thIdx, thRan, thReturned, thCode, thSerial, thPort, notTh>>

ThNext ==
    \/ RunnerStart
    \/ TestRun
    \/ TestReturns
    \/ TestPanics
    \/ AllPassed
    \/ ExitQemu
    \/ Hlt

-----------------------------------------------------------------------------
(* Text sink: print.rs *)

\* calls of global_print by the kernel in one run
MaxPrints == 2

\* what the kernel prints, and what the dispatcher's error! prints
KernelMessage == <<"A", "B">>

DispatcherMessage == <<"X", "Y">>

\* calls of set_global_vram in one run
MaxSets == 2

\* the framebuffers set_global_vram may be called with
Vrams == {"vram1", "vram2"}

\* set_global_vram without its assert
set_global_vram_unchecked(writer, v) ==
    [writer |-> v, outcome |-> "installed"]

\* set_global_vram: the assert that no writer is registered, then
\* `*GLOBAL_VRAM_WRITER.lock() = Some(BitmapTextWriter::new(vram))`
set_global_vram(writer, v) ==
    IF writer # "None"
    THEN [writer |-> writer, outcome |-> "panic"]
    ELSE [writer |-> v, outcome |-> "installed"]

PrInit ==
    /\ prWriter = "None"
    /\ prLock = "free"
    /\ prPc = "idle"
    /\ prI = 0
    /\ prCalls = 0
    /\ prHPc = "none"
    /\ prHI = 0
    /\ prSerial = <<>>
    /\ prVram = <<>>
    /\ prSets = <<>>

\* nothing is printed
PrParked ==
    /\ prWriter = "None"
    /\ prLock = "free"
    /\ prPc = "parked"
    /\ prI = 0
    /\ prCalls = 0
    /\ prHPc = "none"
    /\ prHI = 0
    /\ prSerial = <<>>
    /\ prVram = <<>>
    /\ prSets = <<>>

\* the kernel runs unless a fault was taken: the dispatcher never returns to it
KernelRuns == prHPc = "none"

\* the kernel, not inside global_print, calls set_global_vram; a failed
\* assert ends in the panic handler
SetGlobalVram ==
    /\ KernelRuns
    /\ prPc = "idle"
    /\ prLock = "free"
    /\ Len(prSets) < MaxSets
    /\ \E v \in Vrams :
          \E r \in {set_global_vram(prWriter, v)} :
             /\ prWriter' = r.writer
             /\ prSets' = Append(prSets, [vram |-> v, outcome |-> r.outcome,
                                          calls |-> prCalls])
             /\ prPc' = IF r.outcome = "panic" THEN "panicked" ELSE "idle"
    /\ UNCHANGED <<prLock, prI, prCalls, prHPc, prHI, prSerial, prVram, notPr>>

\* the kernel calls global_print: `let mut writer = SerialPort::default()`
PrintCall ==
    /\ KernelRuns
    /\ prPc = "idle"
    /\ prCalls < MaxPrints
    /\ prCalls' = prCalls + 1
    /\ prPc' = "serial"
    /\ prI' = 0
    /\ UNCHANGED <<prWriter, prLock, prHPc, prHI, prSerial, prVram, prSets, notPr>>

\* fmt::write(&mut writer, args): one character to COM1
PrintSerial ==
    /\ KernelRuns
    /\ prPc = "serial"
    /\ prSerial' = Append(prSerial, [by |-> "kernel", ch |-> KernelMessage[prI + 1],
                                     lock |-> prLock, call |-> prCalls])
    /\ prI' = prI + 1
    /\ prPc' = IF prI + 1 = Len(KernelMessage) THEN "lock" ELSE "serial"
    /\ UNCHANGED <<prWriter, prLock, prCalls, prHPc, prHI, prVram, prSets, notPr>>

\* GLOBAL_VRAM_WRITER.lock(), and the test `if let Some(w)`
PrintLock ==
    /\ KernelRuns
    /\ prPc = "lock"
    /\ prLock = "free"
    /\ prLock' = "kernel"
    /\ prI' = 0
    /\ prPc' = IF prWriter # "None" THEN "vram" ELSE "unlock"
    /\ UNCHANGED <<prWriter, prCalls, prHPc, prHI, prSerial, prVram, prSets, notPr>>

\* fmt::write(w, args): one glyph to the framebuffer
PrintVram ==
    /\ KernelRuns
    /\ prPc = "vram"
    /\ prVram' = Append(prVram, [by |-> "kernel", ch |-> KernelMessage[prI + 1],
                                 lock |-> prLock, call |-> prCalls, to |-> prWriter])
    /\ prI' = prI + 1
    /\ prPc' = IF prI + 1 = Len(KernelMessage) THEN "unlock" ELSE "vram"
    /\ UNCHANGED <<prWriter, prLock, prCalls, prHPc, prHI, prSerial, prSets, notPr>>

\* the guard is dropped at the end of the `if let`
PrintUnlock ==
    /\ KernelRuns
    /\ prPc = "unlock"
    /\ prLock' = "free"
    /\ prPc' = "idle"
    /\ UNCHANGED <<prWriter, prCalls, prI, prHPc, prHI, prSerial, prVram, prSets, notPr>>

\* a fault or an interrupt is taken between two instructions of the kernel;
\* inthandler starts with error!(..), that is, global_print
FaultTaken ==
    /\ prHPc = "none"
    /\ prPc # "parked"
    /\ prHPc' = "serial"
    /\ prHI' = 0
    /\ UNCHANGED <<prWriter, prLock, prPc, prI, prCalls, prSerial, prVram, prSets, notPr>>

\* the dispatcher's fmt::write(&mut writer, args): one character to COM1
DispatcherSerial ==
    /\ prHPc = "serial"
    /\ prSerial' = Append(prSerial, [by |-> "dispatcher", ch |-> DispatcherMessage[prHI + 1],
                                     lock |-> prLock, call |-> 0])
    /\ prHI' = prHI + 1
    /\ prHPc' = IF prHI + 1 = Len(DispatcherMessage) THEN "lock" ELSE "serial"
    /\ UNCHANGED <<prWriter, prLock, prPc, prI, prCalls, prVram, prSets, notPr>>

\* the dispatcher's GLOBAL_VRAM_WRITER.lock(): it spins while the kernel,
\* which cannot run, holds the lock
DispatcherLock ==
    /\ prHPc = "lock"
    /\ prLock' = IF prLock = "free" THEN "dispatcher" ELSE prLock
    /\ prHI' = 0
    /\ prHPc' = (CASE prLock # "free" -> "spinning"
                   [] prWriter # "None" -> "vram"
                   [] OTHER -> "unlock")
    /\ UNCHANGED <<prWriter, prPc, prI, prCalls, prSerial, prVram, prSets, notPr>>

\* the dispatcher's fmt::write(w, args): one glyph to the framebuffer
DispatcherVram ==
    /\ prHPc = "vram"
    /\ prVram' = Append(prVram, [by |-> "dispatcher", ch |-> DispatcherMessage[prHI + 1],
                                 lock |-> prLock, call |-> 0, to |-> prWriter])
    /\ prHI' = prHI + 1
    /\ prHPc' = IF prHI + 1 = Len(DispatcherMessage) THEN "unlock" ELSE "vram"
    /\ UNCHANGED <<prWriter, prLock, prPc, prI, prCalls, prSerial, prSets, notPr>>

\* the dispatcher's guard is dropped; global_print returns into inthandler
DispatcherUnlock ==
    /\ prHPc = "unlock"
    /\ prLock' = "free"
    /\ prHPc' = "returned"
    /\ UNCHANGED <<prWriter, prPc, prI, prCalls, prHI, prSerial, prVram, prSets, notPr>>

PrNext ==
    \/ SetGlobalVram
    \/ PrintCall
    \/ PrintSerial
    \/ PrintLock
    \/ PrintVram
    \/ PrintUnlock
    \/ FaultTaken
    \/ DispatcherSerial
    \/ DispatcherLock
    \/ DispatcherVram
    \/ DispatcherUnlock

-----------------------------------------------------------------------------
(* Properties of the page-table engine *)

\* Table::next_level applied from the root down to the L1 table of v:
\* the table and the index of the leaf entry, or no leaf
LeafSlot(m, v) ==
    LET e4 == ReadEntry(m, RootAddr, calc_index(4, v))
    IN IF ~is_present(e4) THEN <<>>
       ELSE LET e3 == ReadEntry(m, table_mut(e4), calc_index(3, v))
            IN IF ~is_present(e3) THEN <<>>
               ELSE LET e2 == ReadEntry(m, table_mut(e3), calc_index(2, v))
                    IN IF ~is_present(e2) THEN <<>>
                       ELSE <<table_mut(e2), calc_index(1, v)>>

\* the leaf entry the walk for v reaches, or <<>> when it reaches none
Walk(m, v) ==
    LET s == LeafSlot(m, v)
    IN IF s = <<>> THEN <<>> ELSE ReadEntry(m, s[1], s[2])

IsAligned(x) == And64(x, Nat64(ATTR_MASK)) = Zero64

\* the k-th page of the range of the running call, and whether it lies in it
PageOf(k) == Add64(ptArgs.virt_start, Nat64(k * PAGE_SIZE))

InRange(k) ==
    /\ ~AddOverflows(ptArgs.virt_start, Nat64(k * PAGE_SIZE))
    /\ Lt64(PageOf(k), ptArgs.virt_end)

RangePages == {PageOf(k) : k \in {j \in 0..MaxPages : InRange(j)}}

\* the leaf entries whose value differs from the one they had when the call began
LeafValueAtCall(t, i) == IF t \in DOMAIN memAtCall THEN ReadEntry(memAtCall, t, i) ELSE Zero64

ChangedLeaves ==
    {s \in UNION {{<<t, i>> : i \in DOMAIN mem[t].entry
                                     \cup (IF t \in DOMAIN memAtCall
                                           THEN DOMAIN memAtCall[t].entry ELSE {})}
                  : t \in {a \in DOMAIN mem : mem[a].level = 1}} :
        ReadEntry(mem, s[1], s[2]) # LeafValueAtCall(s[1], s[2])}

Returned(r) == ptPc = "idle" /\ ptResult = r

\* the range stays below the next multiple of 2^48
InOneWindow == Shr64(ptArgs.virt_start, 48) = Shr64(Sub64(ptArgs.virt_end, Nat64(PAGE_SIZE)), 48)

MappedAsAsked ==
    \A k \in 0..MaxPages :
        InRange(k) =>
            Walk(mem, PageOf(k)) = Or64(Add64(ptArgs.phys, Nat64(k * PAGE_SIZE)),
                                        Nat64(ptArgs.attr))

ExampleArgs ==
    [virt_start |-> U64(0, 0, 0, 4096), virt_end |-> U64(0, 0, 0, 12288),
     phys |-> U64(0, 0, 43690, 0), attr |-> ReadWriteKernel]

C2_ExactlyTheRange ==
    Returned("Ok") =>
        /\ leafWritten = RangePages
        /\ ChangedLeaves \subseteq {LeafSlot(mem, v) : v \in RangePages}
        /\ Ge64(ptArgs.virt_start, ptArgs.virt_end) => leafWritten = {}

\* C3: a create_mapping call with a phys that is not 4096-aligned ends by
\* returning Err("phys is not aligned") and changes no leaf entry.
C3_MisalignedRejected ==
    (/\ ptPc \in {"idle", "halted"}
     /\ ptResult \notin {"none", "AllocError"}
     /\ ~IsAligned(ptArgs.phys))
    => (ptResult = "ErrNotAligned" /\ ChangedLeaves = {})

\* the call has ended: it returned, or it stopped in a panic or an allocation error
Ended == ptPc \in {"idle", "halted"} /\ ptResult # "none"

\* when the call began every page of its range had a present leaf
LeavesPresentAtCall ==
    \A v \in RangePages :
        /\ LeafSlot(memAtCall, v) # <<>>
        /\ is_present(Walk(memAtCall, v))

C30_Terminates ==
    (ptPc \in {"loop4", "loop3", "loop2", "loop1"}) ~> (ptPc \in {"idle", "halted"})

\* a call on the last page of the address space with virt_end past the wrap
\* returned Ok, the running address having wrapped to 0
C30_Witness ==
    /\ Returned("Ok")
    /\ ptArgs.virt_start = U64(65535, 65535, 65535, 61440)
    /\ ptArgs.virt_end = U64(0, 0, 0, 4096)
    /\ addr = Zero64
    /\ Cardinality(leafWritten) = 1

-----------------------------------------------------------------------------
(* Properties of the firmware bridge *)

LogOf(fn) == {i \in 1..Len(ebsLog) : ebsLog[i].fn = fn}

FailedExits == {i \in LogOf("exit_boot_services") : ebsLog[i].status # "Success"}

\* C4: the iterator of a holder the firmware has filled in yields the
\* descriptors at byte offsets 0, descriptor_size, 2 * descriptor_size, ...,
\* exactly memory_map_size / descriptor_size of them, and from its first
\* None on it yields nothing more.
C4_IteratorYieldsAll ==
    (itActive /\ mmFilled) =>
        /\ \A i \in 1..Len(itYielded) : itYielded[i] = (i - 1) * mmDescSize
        /\ Len(itYielded) <= mmSize \div mmDescSize
        /\ itNones > 0 => Len(itYielded) = mmSize \div mmDescSize

\* three descriptors of 48 bytes were yielded, then None twice
C4_Witness ==
    /\ itActive
    /\ mmFilled
    /\ mmDescSize = DESCRIPTOR_BYTES + 8
    /\ itYielded = <<0, 48, 96>>
    /\ itNones = 2

\* C5: every exit_boot_services call of the firmware follows directly on a
\* get_memory_map call and is passed the key that call left in the holder,
\* and when the function has returned its last firmware call is an
\* exit_boot_services that returned Success, the only one that did.
C5_ExitAfterFreshKey ==
    /\ \A i \in LogOf("exit_boot_services") :
          /\ i > 1
          /\ ebsLog[i - 1].fn = "get_memory_map"
          /\ ebsLog[i].key = ebsLog[i - 1].key
    /\ ebsPc = "returned" =>
          /\ ebsLog # <<>>
          /\ ebsLog[Len(ebsLog)].fn = "exit_boot_services"
          /\ ebsLog[Len(ebsLog)].status = "Success"
          /\ LogOf("exit_boot_services") \ FailedExits = {Len(ebsLog)}
          /\ bootServices = "exited"

\* C6: when exit_boot_services has returned after k failed exit attempts
\* (every get_memory_map having succeeded), it has made k + 1 get_memory_map
\* calls and k + 1 exit attempts, alternating, the last of them a success.
C6_RetryCounts ==
    (/\ ebsPc = "returned"
     /\ \A i \in LogOf("get_memory_map") : ebsLog[i].status = "Success")
    => /\ Cardinality(LogOf("get_memory_map")) = Cardinality(FailedExits) + 1
       /\ Cardinality(LogOf("exit_boot_services")) = Cardinality(FailedExits) + 1
       /\ \A i \in 1..Len(ebsLog) :
             ebsLog[i].fn = IF i % 2 = 1 THEN "get_memory_map" ELSE "exit_boot_services"
       /\ ebsLog[Len(ebsLog)].status = "Success"

\* C6, termination: a started exit_boot_services ends, the firmware's map
\* changing only finitely often
C6_Terminates == (ebsPc = "get") ~> (ebsPc \in {"returned", "panicked"})

\* C26: inside exit_boot_services a get_memory_map call that returned a
\* status other than Success is the function's last firmware call, and the
\* function has ended in the panic of its assertion: no exit_boot_services
\* call and no retry follows it.
C26_FailedGetPanics ==
    \A i \in LogOf("get_memory_map") :
        ebsLog[i].status # "Success" => (i = Len(ebsLog) /\ ebsPc = "panicked")

\* C28: a next() call that yields a descriptor moves the iterator on, so
\* that ofs reaches memory_map_size after finitely many calls, and the
\* descriptor it yields ends within the first memory_map_size bytes of the
\* buffer; this in every holder state, a new holder included.
C28_IterationTerminates ==
    [][(itActive /\ itActive' /\ Len(itYielded') > Len(itYielded))
          => /\ itOfs' > itOfs
             /\ itYielded'[Len(itYielded')] + DESCRIPTOR_BYTES <= mmSize
             /\ mmSize <= MEMORY_MAP_BUFFER_SIZE]_vars

\* C29: every get_memory_map call exit_boot_services makes, the retries
\* included, offers the firmware the whole buffer: memory_map_size is
\* 0x8000 on entry.
C29_FullBufferOffered ==
    \A i \in LogOf("get_memory_map") : ebsLog[i].buf = MEMORY_MAP_BUFFER_SIZE

-----------------------------------------------------------------------------
(* Properties of the descriptor tables *)

\* the handler address a gate holds
GateOffset(g) ==
    Or64(Or64(Nat64(g.offset_low), Shl64(Nat64(g.offset_mid), 16)), Shl64(g.offset_high, 32))

IdtBuilt == dtPc = "return" \/ (dtPc = "Idt_new" /\ dtSub \in {"idt_box", "lidt"})

\* C7: the IDT of Idt::new(KERNEL_CS) has 256 present interrupt gates with
\* selector KERNEL_CS; the gate of vector v reassembles to the address of
\* the stub of v for v in {3, 6, 8, 13, 14, 32}, six distinct addresses, and
\* to int_handler_unimplemented otherwise; DPL is 3 for vector 3 and else 0;
\* the IST index is 2 for vector 8 and else 1.
C7_IdtGates ==
    IdtBuilt =>
        /\ DOMAIN idt = 0..255
        /\ \A v \in DOMAIN idt :
              /\ BitAnd(idt[v].attr, BIT_FLAGS_PRESENT) = BIT_FLAGS_PRESENT
              /\ idt[v].attr % 32 = BIT_FLAGS_INTGATE
              /\ (idt[v].attr \div 32) % 4 = (IF v = 3 THEN 3 ELSE 0)
              /\ idt[v].segment_selector = KERNEL_CS
              /\ idt[v].ist_index = (IF v = 8 THEN 2 ELSE 1)
              /\ GateOffset(idt[v]) = handlerAddr[HandlerOf(v)]
        /\ \A v, w \in HandledSet : v # w => GateOffset(idt[v]) # GateOffset(idt[w])
        /\ \A v \in HandledSet : GateOffset(idt[v]) # GateOffset(idt[0])

\* the IDT is loaded; its handlers lie above 4 GiB, at addresses whose three
\* offset fields are all non-zero
C7_Witness ==
    /\ dtPc = "return"
    /\ cpu.idtr = [limit |-> 4095, base |-> idtAddr]
    /\ idt[8].ist_index = 2
    /\ idt[8].offset_low # 0 /\ idt[8].offset_mid # 0 /\ idt[8].offset_high # Zero64
    /\ idt[255].ist_index = 1

\* the base address a TSS descriptor holds
TssBase(d) ==
    Or64(Or64(Nat64(d.base_low), Shl64(Nat64(d.base_mid_low), 16)),
         Or64(Shl64(Nat64(d.base_mid_high), 24), Shl64(d.base_high, 32)))

\* C8: the TSS descriptor GdtWrapper::default puts in the GDT has limit 103,
\* attribute word 0x8089 and base fields that reassemble to the address of
\* the TSS block.
C8_TssDescriptor ==
    dtPc \in {"lgdt", "ltr"} =>
        /\ gdt.task_state_segment.limit_low = TSS_SIZE - 1
        /\ gdt.task_state_segment.attr = TSS_ATTR
        /\ TssBase(gdt.task_state_segment) = tssAddr

TssBuilt ==
    /\ dtPc \notin {"parked", "alloc_error"}
    /\ ~(dtPc = "default" /\ dtSub \in {"rsp0", "ist"})

\* RSP0, IST1, ..., IST7
StackPointers == <<tss.rsp[1]>> \o [i \in 1..7 |-> tss.ist[i]]

StackBlock(k) == [off |-> stacks[k], size |-> HANDLER_STACK_SIZE]

\* C9: once TaskStateSegment64::new has returned, RSP0 and IST1..IST7 are
\* non-zero, each the address one past the end of its own 64 KiB block; the
\* eight blocks are live on the heap from then on, pairwise disjoint and
\* disjoint from every other live block; IST0 is 0.
C9_TssStacks ==
    TssBuilt =>
        /\ Len(stacks) = 8
        /\ \A k \in 1..8 :
              /\ StackPointers[k] # Zero64
              /\ StackPointers[k] =
                    Add64(Add64(heapBase, Nat64(stacks[k])), Nat64(HANDLER_STACK_SIZE))
              /\ StackBlock(k) \in heapLive
              /\ \A b \in heapLive \ {StackBlock(k)} : ~Overlaps(stacks[k], HANDLER_STACK_SIZE, b)
        /\ \A j, k \in 1..8 : j # k => stacks[j] # stacks[k]
        /\ tss.ist[0] = Zero64

\* init_exceptions has returned on a heap that held a block before, handing
\* out from the top
C9_Witness ==
    /\ dtPc = "return"
    /\ allocPolicy = "last"
    /\ [off |-> 0, size |-> 4660] \in heapLive
    /\ Len(stacks) = 8
    /\ tss.ist[7] # Zero64

PosIn(log, x) == IF \E k \in 1..Len(log) : log[k] = x
                 THEN CHOOSE k \in 1..Len(log) : log[k] = x ELSE 0

\* C10 as stated: lgdt; the far jump that reloads CS; the reloads of SS, DS,
\* ES, FS, GS; ltr; the IDT is built; lidt.
C10_LtrAfterSegments ==
    dtPc = "return" =>
        /\ Len(cpuLog) = 10
        /\ PosIn(cpuLog, "lgdt") = 1
        /\ PosIn(cpuLog, "write_cs") = 2
        /\ {PosIn(cpuLog, x) : x \in {"write_ss", "write_ds", "write_es", "write_fs", "write_gs"}}
              = 3..7
        /\ PosIn(cpuLog, "ltr") = 8
        /\ PosIn(cpuLog, "idt_built") = 9
        /\ PosIn(cpuLog, "lidt") = 10

\* C10 amended: lgdt; ltr; the far jump that reloads CS; the reloads of SS,
\* ES, DS, FS, GS in this order; the IDT is built; lidt. The task register
\* is loaded right after the GDT, the IDT last.
C10_LoadOrder ==
    dtPc = "return" =>
        cpuLog = <<"lgdt", "ltr", "write_cs", "write_ss", "write_es", "write_ds",
                   "write_fs", "write_gs", "idt_built", "lidt">>

\* init_exceptions has returned with every register loaded
C10_Witness ==
    /\ dtPc = "return"
    /\ Len(cpuLog) = 10
    /\ cpu.gdtr = [limit |-> 39, base |-> gdtAddr]
    /\ cpu.tr = TSS64_SEL
    /\ cpu.cs = KERNEL_CS
    /\ cpu.ss = KERNEL_DS /\ cpu.ds = KERNEL_DS /\ cpu.es = KERNEL_DS
    /\ cpu.fs = KERNEL_DS /\ cpu.gs = KERNEL_DS

-----------------------------------------------------------------------------
(* Properties of interrupt entry and dispatch *)

\* the frame's lowest address, as inthandler_common passes it in rdi
InfoAddr == regs["rdi"]

\* rsp before the processor pushed anything
EntryTop == AlignDown(ihTop[IstIndexOf(ihVec)], 16)

\* the frame at InfoAddr has the fields of InterruptInfo, each holding the
\* value of interrupt entry
FrameLayout ==
    /\ stk[InfoAddr] = "fpu"
    /\ InfoAddr + FPU_CONTEXT_SIZE \notin DOMAIN stk
    /\ \A k \in 1..Len(GeneralRegisterContext) :
          stk[InfoAddr + OFFSET_GREG + (k - 1) * WORD] = ihEntry.regs[GeneralRegisterContext[k]]
    /\ stk[InfoAddr + OFFSET_ERROR_CODE] = ihEntry.error_code
    /\ stk[InfoAddr + OFFSET_CTX] = ihEntry.rip
    /\ stk[InfoAddr + OFFSET_CTX + WORD] = ihEntry.cs
    /\ stk[InfoAddr + OFFSET_CTX + 2 * WORD] = ihEntry.rflags
    /\ stk[InfoAddr + OFFSET_CTX + 3 * WORD] = ihEntry.regs["rsp"]
    /\ stk[InfoAddr + OFFSET_CTX + 4 * WORD] = ihEntry.ss

\* C11 as stated: InterruptInfo is 576 bytes: the 512-byte FPU area, 8 bytes
\* of padding, 15 general registers, the error code, {RIP, CS, RFLAGS, RSP,
\* SS}; the processor, the stub and the prologue push this many bytes.
C11_Frame576 ==
    /\ INTERRUPT_INFO_SIZE = 576
    /\ ihPc = "call" => (EntryTop - InfoAddr = 576 /\ FrameLayout)

\* C11 amended: the same layout, of 688 bytes in total.
C11_Frame688 ==
    /\ INTERRUPT_INFO_SIZE = 688
    /\ ihPc = "call" => (EntryTop - InfoAddr = INTERRUPT_INFO_SIZE /\ FrameLayout)

\* a page fault with error code 2 has reached the call of inthandler
C11_Witness ==
    /\ ihPc = "call"
    /\ ihVec = 14
    /\ ihEntry.error_code = 2
    /\ regs["rsi"] = 14
    /\ stk[InfoAddr + OFFSET_ERROR_CODE] = 2

GeneralRegisters == RegNames \ {"rsp"}

\* C12 as stated: for a vector whose stub pushes the error code itself, rsp at
\* iretq is the rsp right after that push, and every general register holds
\* its value of interrupt entry.
C12_RspAfterPush ==
    (ihPc = "iretq" /\ ihVec \in SyntheticErrorCode) =>
        /\ regs["rsp"] = ihRspErr
        /\ \A r \in GeneralRegisters : regs[r] = ihEntry.regs[r]

\* C12 amended: rsp at iretq is the rsp right before that push (8 above the
\* rsp right after it): it points at the RIP the processor pushed; every
\* general register holds its value of interrupt entry, and iretq resumes
\* the interrupted code on its own stack.
C12_RspBeforePush ==
    /\ (ihPc = "iretq" /\ ihVec \in SyntheticErrorCode) =>
          /\ regs["rsp"] = ihRspErr + WORD
          /\ regs["rsp"] = EntryTop - Len(InterruptContext) * WORD
          /\ \A r \in GeneralRegisters : regs[r] = ihEntry.regs[r]
    /\ (ihPc = "resumed" /\ ihVec \in SyntheticErrorCode) =>
          /\ regs = ihEntry.regs
          /\ ihFrame = [rip |-> ihEntry.rip, cs |-> ihEntry.cs, rflags |-> ihEntry.rflags,
                        rsp |-> ihEntry.regs["rsp"], ss |-> ihEntry.ss]

\* the timer interrupt was taken on an IST stack whose top is not a multiple
\* of 16, the dispatcher returned, and the interrupted code runs again
C12_Witness ==
    /\ ihPc = "resumed"
    /\ ihVec = 32
    /\ ihTop[1] % 16 # 0
    /\ ihRspErr = EntryTop - 6 * WORD
    /\ regs = ihEntry.regs

\* C13: for every vector, control enters inthandler (vectors 3, 6, 8, 13, 14,
\* 32) or int_handler_unimplemented (all others), ends in panic, and the
\* restore sequence and iretq are not reached.
C13_EveryVectorPanics ==
    /\ ihPc \notin {"restore", "pop", "pop_rcx", "iretq", "resumed"}
    /\ ihDispatcher # "none" =>
          /\ ihDispatcher = (IF ihVec \in HandledSet THEN "inthandler"
                             ELSE "int_handler_unimplemented")
          /\ ihPc = "panicked"

\* the word of the frame at byte offset ofs
Field(ofs) == stk[regs["rdi"] + ofs]

\* C21: for each vector in {3, 6, 8, 13, 14, 32}, at the call of the
\* dispatcher the memory at rdi is an InterruptInfo field for field: the entry
\* value of each general register in the field of its name (rax, rdx, rbx,
\* rbp, rsi, rdi, r8..r15, rcx), then exactly one error-code word (the
\* processor's for 8, 13, 14, a 0 from the stub for 3, 6, 32), then the
\* processor's frame beginning with RIP; rsi holds the vector.
C21_FrameMatchesStruct ==
    (ihPc = "call" /\ ihVec \in {3, 6, 8, 13, 14, 32}) =>
        /\ Field(520) = ihEntry.regs["rax"]
        /\ Field(528) = ihEntry.regs["rdx"]
        /\ Field(536) = ihEntry.regs["rbx"]
        /\ Field(544) = ihEntry.regs["rbp"]
        /\ Field(552) = ihEntry.regs["rsi"]
        /\ Field(560) = ihEntry.regs["rdi"]
        /\ Field(568) = ihEntry.regs["r8"]
        /\ Field(576) = ihEntry.regs["r9"]
        /\ Field(584) = ihEntry.regs["r10"]
        /\ Field(592) = ihEntry.regs["r11"]
        /\ Field(600) = ihEntry.regs["r12"]
        /\ Field(608) = ihEntry.regs["r13"]
        /\ Field(616) = ihEntry.regs["r14"]
        /\ Field(624) = ihEntry.regs["r15"]
        /\ Field(632) = ihEntry.regs["rcx"]
        /\ Field(640) = (IF ihVec \in {8, 13, 14} THEN ihEntry.error_code ELSE 0)
        /\ regs["rdi"] + 640 = ihRspErr
        /\ <<Field(648), Field(656), Field(664), Field(672), Field(680)>>
              = <<ihEntry.rip, ihEntry.cs, ihEntry.rflags, ihEntry.regs["rsp"], ihEntry.ss>>
        /\ regs["rdi"] + 688 = EntryTop
        /\ regs["rsi"] = ihVec

\* a breakpoint has reached the call: the stub's 0 lies between rcx and RIP
C21_Witness ==
    /\ ihPc = "call"
    /\ ihVec = 3
    /\ regs["rsi"] = 3
    /\ Field(632) = ihEntry.regs["rcx"]
    /\ Field(640) = 0
    /\ Field(648) = ihEntry.rip
    /\ ihEntry.regs["rcx"] # 3

\* C22: the processor having aligned rsp to 16 before it pushed its frame,
\* for every vector with a stub the address fxsave64 is given, which is also
\* the frame pointer passed in rdi, is a multiple of 16, and so is rsp at the
\* call of the dispatcher.
C22_Aligned16 ==
    /\ ihPc # "fault"
    /\ ihPc = "args" => regs["rsp"] % 16 = 0
    /\ ihPc = "call" =>
          /\ regs["rdi"] % 16 = 0
          /\ regs["rsp"] % 16 = 0
          /\ stk[regs["rdi"]] = "fpu"

\* a double fault, with an error code from the processor and on the second
\* interrupt stack, whose top is not a multiple of 16, has reached the call
C22_Witness ==
    /\ ihPc = "call"
    /\ ihVec = 8
    /\ ihTop[2] % 16 # 0
    /\ regs["rdi"] % 16 = 0
    /\ regs["rsp"] = regs["rdi"]

-----------------------------------------------------------------------------
(* Properties of the diagnostic *)

\* C23: for vector 14 and every error code the decoded cause says user iff
\* bit 2 is set (else supervisor); instruction fetch iff bit 4 is set,
\* otherwise data write iff bit 1 is set, otherwise data read; present iff
\* bit 0 is set (else non-present); invalid page structures iff bit 3 is set
\* (else valid). For every other vector no cause is decoded.
C23_PageFaultDecoded ==
    pfDiag # NoDiag =>
        IF pfIndex = 14
        THEN /\ Len(pfDiag.cause) = 1
             /\ pfDiag.cause[1].mode = (IF pfCode % 8 >= 4 THEN "user" ELSE "supervisor")
             /\ pfDiag.cause[1].access =
                    (IF pfCode % 32 >= 16 THEN "instruction fetch"
                     ELSE IF pfCode % 4 >= 2 THEN "data write" ELSE "data read")
             /\ pfDiag.cause[1].page = (IF pfCode % 2 = 1 THEN "present" ELSE "non-present")
             /\ pfDiag.cause[1].structures = (IF pfCode % 16 >= 8 THEN "invalid" ELSE "valid")
             /\ "Page Fault" \in {pfDiag.lines[k] : k \in 1..Len(pfDiag.lines)}
        ELSE /\ pfDiag.cause = <<>>
             /\ "Caused by" \notin {pfDiag.lines[k] : k \in 1..Len(pfDiag.lines)}

\* an instruction fetch by the supervisor from a page that is not present,
\* with the write bit set as well: error code 18
C23_Witness ==
    /\ pfIndex = 14
    /\ pfCode = 18
    /\ pfDiag.cause = <<[mode |-> "supervisor", access |-> "instruction fetch",
                         page |-> "non-present", structures |-> "valid"]>>

-----------------------------------------------------------------------------
(* Properties of drawing *)

\* C14: draw_point(x, y) writes exactly one pixel, at byte offset
\* (y * pixels_per_line + x) * 4, inside the height * pixels_per_line * 4 bytes
\* of the framebuffer, when 0 <= x < min(width, pixels_per_line) and
\* 0 <= y < height; for any other (x, y), negative ones included, it returns
\* Err("Out of Range") and writes nothing.
C14_DrawPoint ==
    gfxLast.result # "none" =>
        IF /\ 0 <= gfxLast.x /\ gfxLast.x < Min(gfxBuf.width, gfxBuf.pixels_per_line)
           /\ 0 <= gfxLast.y /\ gfxLast.y < gfxBuf.height
        THEN /\ gfxLast.result = "Ok"
             /\ gfxLast.writes = {(gfxLast.y * gfxBuf.pixels_per_line + gfxLast.x) * 4}
             /\ \A o \in gfxLast.writes :
                   0 <= o /\ o + 4 <= gfxBuf.height * gfxBuf.pixels_per_line * 4
             /\ DOMAIN vram = DOMAIN gfxBefore
             /\ \A o \in DOMAIN vram :
                   vram[o] = IF o \in gfxLast.writes THEN gfxLast.color ELSE gfxBefore[o]
        ELSE /\ gfxLast.result = "Out of Range"
             /\ gfxLast.writes = {}
             /\ vram = gfxBefore

\* the second draw_point painted the last pixel of a framebuffer whose stride
\* is below its width
C14_Witness ==
    /\ gfxCalls = 2
    /\ gfxBuf.pixels_per_line < gfxBuf.width
    /\ gfxLast.result = "Ok"
    /\ gfxLast.x = 1 /\ gfxLast.y = 1
    /\ gfxLast.color = 2
    /\ vram[12] = 2
    /\ gfxBefore[12] = 0

\* the pixels (x, y) with px <= x < px + w and py <= y < py + h of the call
Rect == (frLast.px..(frLast.px + frLast.w - 1)) \X (frLast.py..(frLast.py + frLast.h - 1))

\* C27: fill_rect(px, py, w, h) either returns Err("Out of Range") having
\* written no pixel, or returns Ok having written exactly the pixels (x, y)
\* with px <= x < px + w and py <= y < py + h, each of them within
\* 0 <= x < min(width, pixels_per_line) and 0 <= y < height; this for every
\* px, py, w and h, zero and negative w or h included.
C27_FillRectAllOrNothing ==
    frLast.result # "none" =>
        \/ /\ frLast.result = "Out of Range"
           /\ frVram = frBefore
        \/ /\ frLast.result = "Ok"
           /\ \A c \in Rect :
                 /\ 0 <= c[1] /\ c[1] < Min(frBuf.width, frBuf.pixels_per_line)
                 /\ 0 <= c[2] /\ c[2] < frBuf.height
           /\ DOMAIN frVram = DOMAIN frBefore
           /\ \A o \in DOMAIN frVram :
                 frVram[o] =
                    IF \E c \in Rect : o = (c[2] * frBuf.pixels_per_line + c[1]) * 4
                    THEN frLast.color
                    ELSE frBefore[o]

\* in every build a fill_rect call that does not panic on an overflow is
\* all-or-nothing, and one that panics has written no pixel
FillRectPanicWritesNothing ==
    IF frLast.result = "panic" THEN frVram = frBefore ELSE C27_FillRectAllOrNothing

-----------------------------------------------------------------------------
(* Properties of the allocation test *)

\* C15: for every sequence of allocations of size 128 with an alignment in
\* {1, 2, 4, 8, 16, 32, 64, 4096}, none freed in between, each returned
\* pointer p has p % align = 0 and [p, p + size) is disjoint from every other
\* block that is still live.
C15_AlignedDisjoint ==
    \A i \in 1..Len(alPtrs) :
        alPtrs[i].ok =>
            /\ PtrMod(alBase, alPtrs[i].off, alPtrs[i].align) = 0
            /\ alPtrs[i].off >= 0
            /\ alPtrs[i].off + ALLOC_SIZE <= HeapSize
            /\ \A j \in 1..Len(alPtrs) :
                  (j # i /\ alPtrs[j].ok) =>
                      \/ alPtrs[i].off + ALLOC_SIZE <= alPtrs[j].off
                      \/ alPtrs[j].off + ALLOC_SIZE <= alPtrs[i].off
            /\ \A b \in alLive :
                  \/ b = [off |-> alPtrs[i].off, size |-> ALLOC_SIZE]
                  \/ ~Overlaps(alPtrs[i].off, ALLOC_SIZE, b)
    /\ alPc # "panicked"

\* a heap with a live block of 4660 bytes at its start has handed out blocks
\* aligned to 1, then 16, then 4096, from its lowest free address upwards
C15_Witness ==
    /\ Len(alPtrs) = 3
    /\ alPolicy = "first"
    /\ [off |-> 0, size |-> 4660] \in alLive
    /\ alPtrs[1] = [ok |-> TRUE, off |-> 4660, align |-> 1]
    /\ alPtrs[2] = [ok |-> TRUE, off |-> 4800, align |-> 16]
    /\ alPtrs[3] = [ok |-> TRUE, off |-> 8192, align |-> 4096]

-----------------------------------------------------------------------------
(* Properties of the executor *)

IsPrefix(a, b) == Len(a) <= Len(b) /\ \A k \in 1..Len(a) : a[k] = b[k]

Alternation == <<"A", "X", "B", "Y", "C", "Z">>

\* C16: with task 1 (A, B, C) and task 2 (X, Y, Z) spawned in this order, the
\* prints separated by yield_now, the output is A, X, B, Y, C, Z: at every
\* moment a prefix of it, and in the end all of it.
C16_Alternation ==
    /\ [](exProg = <<TaskAbc, TaskXyz>> => IsPrefix(exOut, Alternation))
    /\ [](exProg = <<TaskAbc, TaskXyz>> /\ exPc = "idle" => exOut = Alternation)
    /\ (exProg = <<TaskAbc, TaskXyz>> ~> exOut = Alternation)

\* both tasks have run to their end and the output is complete
C16_Witness ==
    /\ exProg = <<TaskAbc, TaskXyz>>
    /\ exDone = {1, 2}
    /\ exPc = "idle"
    /\ exOut = Alternation

\* how often task t is held: in the ready FIFO, in the sleeping set, polled
Holders(t) ==
    Cardinality({k \in 1..Len(exReady) : exReady[k] = t})
    + Cardinality({e \in exSleeping : e.task = t})
    + (IF t \in exPolled THEN 1 ELSE 0)

\* C17: every live task is in exactly one of the ready FIFO, the sleeping set
\* and being polled; at most one task is being polled; a task that is done is
\* in none of them.
C17_ExactlyOneHolder ==
    /\ Cardinality(exPolled) <= 1
    /\ \A t \in 1..exSpawned : Holders(t) = IF t \in exDone THEN 0 ELSE 1
    /\ \A t \in (exSpawned + 1)..Len(exProg) : Holders(t) = 0

\* one task is being polled while another sleeps and a third waits in the
\* ready FIFO after it was woken
C17_Witness ==
    /\ Len(exProg) = 3
    /\ exPolled = {2}
    /\ exReady = <<3>>
    /\ \E e \in exSleeping : e.task = 1
    /\ exNow >= 1

-----------------------------------------------------------------------------
(* Properties of the test harness *)

\* C18: the tests run in slice order; Success (1) is written to port 0xF4
\* only after every test has returned; a panic in a test writes Fail (2)
\* instead and no later test runs; exit_qemu never returns: after the port
\* write the harness only halts.
C18_ExitCodes ==
    /\ \A k \in 1..Len(thRan) : thRan[k] = k
    /\ thReturned \subseteq 1..Len(thRan)
    /\ Len(thPort) <= 1
    /\ thPort # <<>> <=> thPc = "halted"
    /\ thHlts > 0 => thPc = "halted"
    /\ \A k \in 1..Len(thPort) :
          /\ thPort[k].port = 244
          /\ thPort[k].value \in {1, 2}
          /\ thPort[k].value = 1 <=>
                /\ Len(thRan) = Len(thTests)
                /\ thReturned = 1..Len(thTests)
          /\ thPort[k].value = 2 <=>
                /\ thRan # <<>>
                /\ thTests[Len(thRan)] = "panics"
                /\ thReturned = 1..(Len(thRan) - 1)
    /\ \A k \in 1..Len(thRan) : thTests[k] = "panics" => k = Len(thRan)

\* the second of three tests panicked: Fail was written, the third test never
\* ran, and the harness went round its hlt loop
C18_Witness ==
    /\ thTests = <<"returns", "panics", "returns">>
    /\ thRan = <<1, 2>>
    /\ thReturned = {1}
    /\ thPort = <<[port |-> 244, value |-> 2]>>
    /\ thHlts = 2

-----------------------------------------------------------------------------
(* Properties of the text sink *)

\* the output of one call is not split by the output of another: once the
\* dispatcher has written to a sink, what the kernel wrote there before ends
\* with a whole message
Unsplit(log) ==
    \A k \in 1..Len(log) :
        (log[k].by = "dispatcher" /\ k > 1 /\ log[k - 1].by = "kernel") =>
            log[k - 1].ch = KernelMessage[Len(KernelMessage)]

\* C19: every character global_print sends to the serial port and every
\* glyph it draws is written while the lock of the text sink is held by the
\* writing call, and the output of two calls (one of them the dispatcher's,
\* after a fault inside the other) is not interleaved on either sink.
C19_WritesUnderLock ==
    /\ \A k \in 1..Len(prSerial) : prSerial[k].lock = prSerial[k].by
    /\ \A k \in 1..Len(prVram) : prVram[k].lock = prVram[k].by
    /\ Unsplit(prSerial)
    /\ Unsplit(prVram)

\* what holds of the framebuffer alone
VramUnderLock ==
    /\ \A k \in 1..Len(prVram) : prVram[k].lock = prVram[k].by
    /\ Unsplit(prVram)

\* C24: a fault taken at any point, also while global_print holds the lock
\* of GLOBAL_VRAM_WRITER, lets the dispatcher's print go through: the
\* dispatcher is never left spinning on a lock that the code it interrupted
\* holds.
C24_DispatcherNeverBlocked ==
    /\ prHPc # "spinning"
    /\ prHPc \in {"lock", "vram", "unlock"} => prLock # "kernel"

\* the characters of log written by the kernel's call number c
OfCall(log, c) == SelectSeq(log, LAMBDA e : e.by = "kernel" /\ e.call = c)

\* the kernel's calls of global_print that have returned
ReturnedCalls == 1..(IF prPc \in {"idle", "panicked"} THEN prCalls ELSE prCalls - 1)

\* C25: the first set_global_vram installs the writer; every later call
\* panics on its assert and leaves the first writer in place; a global_print
\* made before the registration writes to the serial port only and does not
\* panic; one made after it writes to the framebuffer writer as well.
C25_RegisteredOnce ==
    /\ prSets = <<>> => prWriter = "None"
    /\ prSets # <<>> =>
          /\ prSets[1].outcome = "installed"
          /\ prWriter = prSets[1].vram
    /\ \A k \in 2..Len(prSets) : prSets[k].outcome = "panic" /\ prPc = "panicked"
    /\ prPc = "panicked" => Len(prSets) >= 2
    /\ \A k \in 1..Len(prVram) : prSets # <<>> /\ prVram[k].to = prSets[1].vram
    /\ \A c \in ReturnedCalls :
          /\ Len(OfCall(prSerial, c)) = Len(KernelMessage)
          /\ Len(OfCall(prVram, c)) =
                (IF prSets # <<>> /\ prSets[1].calls < c THEN Len(KernelMessage) ELSE 0)

\* a print before the registration, the registration of vram2, a print after
\* it, and a second set_global_vram, with vram1, that panicked
C25_Witness ==
    /\ prCalls = 2
    /\ Len(prSets) = 2
    /\ prSets[1] = [vram |-> "vram2", outcome |-> "installed", calls |-> 1]
    /\ prSets[2].vram = "vram1"
    /\ prSets[2].outcome = "panic"
    /\ prWriter = "vram2"
    /\ Len(prSerial) = 4
    /\ Len(prVram) = 2
    /\ prHPc = "none"

-----------------------------------------------------------------------------
(* Specifications *)

InitPT == PtInit /\ FwParked /\ DtParked /\ IhParked /\ GfxParked /\ AlParked /\ ExParked /\ ThParked /\ PrParked /\ PfParked /\ FrParked

SpecPT == InitPT /\ [][PtNext]_vars

\* the processor executes the next step of a create_mapping call under way
SpecPTFair == SpecPT /\ WF_vars(Descend(4) \/ Descend(3) \/ Descend(2) \/ LeafStep)

InitFW == FwInit /\ PtParked /\ DtParked /\ IhParked /\ GfxParked /\ AlParked /\ ExParked /\ ThParked /\ PrParked /\ PfParked /\ FrParked

SpecFW == InitFW /\ [][FwNext]_vars

\* the kernel is the only thing that runs: a call it can make, it makes
SpecFWFair == SpecFW /\ WF_vars(EbsGet) /\ WF_vars(EbsExit)

InitDT == DtInit /\ PtParked /\ FwParked /\ IhParked /\ GfxParked /\ AlParked /\ ExParked /\ ThParked /\ PrParked /\ PfParked /\ FrParked

SpecDT == InitDT /\ [][DtNext]_vars

InitIH == IhInit /\ PtParked /\ FwParked /\ DtParked /\ GfxParked /\ AlParked /\ ExParked /\ ThParked /\ PrParked /\ PfParked /\ FrParked

SpecIH == InitIH /\ [][IhNext]_vars

SpecAsm == InitIH /\ [][AsmNext]_vars

InitGFX == GfxInit /\ PtParked /\ FwParked /\ DtParked /\ IhParked /\ AlParked /\ ExParked /\ ThParked /\ PrParked /\ PfParked /\ FrParked
SpecGFX == InitGFX /\ [][GfxNext]_vars

InitAL == AlInit /\ PtParked /\ FwParked /\ DtParked /\ IhParked /\ GfxParked /\ ExParked /\ ThParked /\ PrParked /\ PfParked /\ FrParked

SpecAL == InitAL /\ [][AlNext]_vars

InitEX == ExInit /\ PtParked /\ FwParked /\ DtParked /\ IhParked /\ GfxParked /\ AlParked /\ ThParked /\ PrParked /\ PfParked /\ FrParked

SpecEX == InitEX /\ [][ExNext]_vars

InitTH == ThInit /\ PtParked /\ FwParked /\ DtParked /\ IhParked /\ GfxParked /\ AlParked /\ ExParked /\ PrParked /\ PfParked /\ FrParked

SpecTH == InitTH /\ [][ThNext]_vars

InitFR == FrInit /\ PtParked /\ FwParked /\ DtParked /\ IhParked /\ GfxParked /\ AlParked /\ ExParked /\ ThParked /\ PrParked /\ PfParked

SpecFR == InitFR /\ [][FrNext]_vars

InitPF == PfInit /\ PtParked /\ FwParked /\ DtParked /\ IhParked /\ GfxParked /\ AlParked /\ ExParked /\ ThParked /\ PrParked /\ FrParked

SpecPF == InitPF /\ [][PfNext]_vars

InitPR == PrInit /\ PtParked /\ FwParked /\ DtParked /\ IhParked /\ GfxParked /\ AlParked /\ ExParked /\ ThParked /\ PfParked /\ FrParked

SpecPR == InitPR /\ [][PrNext]_vars

\* the run loop never stops of itself
SpecEXFair == SpecEX /\ WF_vars(Spawn \/ EnterRun \/ WakeExpired \/ PollHead \/ Halt \/ TaskPrint \/ TaskYield
                         \/ TaskSleep \/ TaskReady)
                  /\ WF_vars(Tick)

====
